---- MODULE Spec2Model ----
(***************************************************************************)
(* A model of BNDL: the job built by schedule_job and its execution on     *)
(* workers (bndl/compute/dataset.py, bndl/execute/job.py,                  *)
(* bndl/execute/worker.py), the single-flight Coordinator                  *)
(* (bndl/util/threads.py) and the RMI request/response layer               *)
(* (bndl/rmi/node.py).                                                     *)
(***************************************************************************)
EXTENDS Integers, Sequences, FiniteSets, TLC

(***************************************************************************)
(* Bounds                                                                  *)
(***************************************************************************)
NWorkers == 2
MaxAttempts == 2
MaxJobs == 2
MaxKills == 1
MaxCancels == 2
MaxMarks == 1

Workers == 1..NWorkers
None == 0

(***************************************************************************)
(* Sequence helpers                                                        *)
(***************************************************************************)
Range(s) == {s[i] : i \in 1..Len(s)}

RECURSIVE Flatten(_)
Flatten(ss) == IF ss = <<>> THEN <<>> ELSE Head(ss) \o Flatten(Tail(ss))

RECURSIVE SeqSum(_)
SeqSum(s) == IF s = <<>> THEN 0 ELSE Head(s) + SeqSum(Tail(s))

RECURSIVE SetToSeq(_)
SetToSeq(S) ==
    IF S = {} THEN <<>>
    ELSE LET m == CHOOSE x \in S : \A y \in S : x <= y
         IN <<m>> \o SetToSeq(S \ {m})

Count(s, e) == Cardinality({i \in 1..Len(s) : s[i] = e})

\* list.sort(key=...): a stable insertion of x into a list sorted by task id
RECURSIVE InsertById(_, _)
InsertById(s, x) ==
    IF s = <<>> THEN <<x>>
    ELSE IF x.id < Head(s).id THEN <<x>> \o s
    ELSE <<Head(s)>> \o InsertById(Tail(s), x)

RECURSIVE SortById(_)
SortById(s) ==
    IF s = <<>> THEN <<>>
    ELSE InsertById(SortById(SubSeq(s, 1, Len(s) - 1)), s[Len(s)])

(***************************************************************************)
(* The lineage: datasets and their partitions                              *)
(***************************************************************************)
\* The datasets the driver program has composed.  src is the sequence of
\* source dataset ids (empty: no source; several: a union).
\*   1  ctx.range(2, pcount=2)             2  1.map(f)
\*   3  ShuffleWritingDataset over 2       4  ShuffleReadingDataset over 3
\*   5  4.map(f)
\*   6  ctx.range(2, 3, pcount=1)
\*   7  4.union(6)
\*   8  ctx.range(4, pcount=2)             9  8.map(g)
\*  10  ShuffleWritingDataset over 9      11  ShuffleReadingDataset over 10
\*  12  1.union(6)                        13  6.union(7)
\*  14  ShuffleWritingDataset over 7      15  ShuffleReadingDataset over 14
\*  16  6.map(f)
Datasets ==
    <<[kind |-> "Iterable",       src |-> <<>>,     pcount |-> 2],
      [kind |-> "Transforming",   src |-> <<1>>,    pcount |-> 0],
      [kind |-> "ShuffleWriting", src |-> <<2>>,    pcount |-> 2],
      [kind |-> "ShuffleReading", src |-> <<3>>,    pcount |-> 0],
      [kind |-> "Transforming",   src |-> <<4>>,    pcount |-> 0],
      [kind |-> "Iterable",       src |-> <<>>,     pcount |-> 1],
      [kind |-> "Union",          src |-> <<4, 6>>, pcount |-> 0],
      [kind |-> "Iterable",       src |-> <<>>,     pcount |-> 2],
      [kind |-> "Transforming",   src |-> <<8>>,    pcount |-> 0],
      [kind |-> "ShuffleWriting", src |-> <<9>>,    pcount |-> 2],
      [kind |-> "ShuffleReading", src |-> <<10>>,   pcount |-> 0],
      [kind |-> "Union",          src |-> <<1, 6>>, pcount |-> 0],
      [kind |-> "Union",          src |-> <<6, 7>>, pcount |-> 0],
      [kind |-> "ShuffleWriting", src |-> <<7>>,    pcount |-> 2],
      [kind |-> "ShuffleReading", src |-> <<14>>,   pcount |-> 0],
      [kind |-> "Transforming",   src |-> <<6>>,    pcount |-> 0]>>

DatasetIds == 1..Len(Datasets)

\* the first element of the range an iterable dataset holds
Offset(d) == IF d = 6 THEN 2 ELSE 0

\* the elements of a partition of an iterable dataset: one element per
\* partition, two per partition in the range of four
Elements(p) ==
    IF p.dset = 8 THEN <<2 * p.idx, 2 * p.idx + 1>> ELSE <<Offset(p.dset) + p.idx>>

\* Dataset.sync_required / ShuffleWritingDataset.sync_required
sync_required(d) == Datasets[d].kind = "ShuffleWriting"

\* isinstance(dset.src, Iterable)
HasManySrc(d) == Datasets[d].kind = "Union"

\* Dataset.parts() of each kind of dataset: the list of (dset, idx) partitions
RECURSIVE parts(_)
parts(d) ==
    LET ds == Datasets[d] IN
    CASE ds.kind = "Iterable" ->
            [i \in 1..ds.pcount |-> [dset |-> d, idx |-> i - 1]]
      [] ds.kind \in {"Transforming", "ShuffleWriting"} ->
            [i \in 1..Len(parts(ds.src[1])) |-> [dset |-> d, idx |-> i - 1]]
      [] ds.kind = "ShuffleReading" ->
            [i \in 1..Datasets[ds.src[1]].pcount |-> [dset |-> d, idx |-> i - 1]]
      [] ds.kind = "Union" ->
            Flatten([k \in 1..Len(ds.src) |-> parts(ds.src[k])])

NoPart == [dset |-> 0, idx |-> 0]

\* Partition.src: the source partition a partition was constructed with
\* (NoPart for the partitions of an iterable and of a shuffle reader)
PartSrc(p) ==
    LET ds == Datasets[p.dset] IN
    IF ds.kind \in {"Transforming", "ShuffleWriting"}
    THEN parts(ds.src[1])[p.idx + 1]
    ELSE NoPart

(***************************************************************************)
(* schedule_job and schedule_stage                                         *)
(***************************************************************************)
\* MaterializePartitionTask(part, stage, ...): the task id is part.idx
MaterializePartitionTask(p) == [id |-> p.idx, part |-> p]

\* schedule_stage: one task per partition of dset.parts(), sorted by id
schedule_stage(d) ==
    SortById([i \in 1..Len(parts(d)) |-> MaterializePartitionTask(parts(d)[i])])

\* job.stages.insert(0, stage), the mutation: the stage is appended
StagesAppended(stages, stage) == stages \o <<stage>>

\* job.stages.insert(0, stage)
StagesInsertFirst(stages, stage) == <<stage>> \o stages

\* for stage in reversed(branch_stages): job.stages.insert(0, stage)
RECURSIVE InsertReversed(_, _)
InsertReversed(stages, branch_stages) ==
    IF branch_stages = <<>> THEN stages
    ELSE InsertReversed(
            StagesInsertFirst(stages, branch_stages[Len(branch_stages)]),
            SubSeq(branch_stages, 1, Len(branch_stages) - 1))

\* schedule_job(dset): the stages of the job in the order of job.stages.
\* WalkLineage is the while loop over dset = dset.src, BranchStages the
\* for loop over the sources of a union.
RECURSIVE schedule_job(_), WalkLineage(_, _), BranchStages(_, _, _)
BranchStages(d, k, stages) ==
    IF k > Len(Datasets[d].src) THEN stages
    ELSE LET branch == schedule_job(Datasets[d].src[k])
             branch_stages ==
                 IF sync_required(d) THEN branch
                 ELSE IF Len(branch) > 1 THEN SubSeq(branch, 1, Len(branch) - 1)
                 ELSE <<>>
         IN BranchStages(d, k + 1, InsertReversed(stages, branch_stages))

WalkLineage(d, stages) ==
    IF d = None THEN stages
    ELSE IF HasManySrc(d) THEN BranchStages(d, 1, stages)
    ELSE LET next == IF Datasets[d].src = <<>> THEN None ELSE Datasets[d].src[1]
         IN IF sync_required(d)
            THEN WalkLineage(next, StagesInsertFirst(stages, schedule_stage(d)))
            ELSE WalkLineage(next, stages)

schedule_job(d) == WalkLineage(d, StagesInsertFirst(<<>>, schedule_stage(d)))

\* stage ids in the order in which the stages were created: the last stage
\* of the job first
StageIdsByCreation(stgs) == [i \in 1..Len(stgs) |-> Len(stgs) - i]
\* for idx, stage in enumerate(job.stages): stage.id = idx
StageIds(stgs) == [i \in 1..Len(stgs) |-> i - 1]

(***************************************************************************)
(* State of the driver, the workers and the messages between them          *)
(***************************************************************************)
VARIABLES
    target,         \* the dataset the terminal action is called on
    cached,         \* the datasets with a cache provider (Dataset.cache())
    attempts_conf,  \* ctx.conf['bndl.execute.attempts']
    fail_on,        \* the workers on which the mapped function f raises
    clear_fail_on,  \* the workers on which a clear_bucket call fails
    job_no,         \* the number of terminal actions started so far
    job_state,      \* "running", "returned" or "raised" (the terminal action)
    stages,         \* job.stages of the current job
    cur,            \* the index of the stage being executed
    pending,        \* the pending task list of the current stage
    avail,          \* the workers with a free slot (concurrency 1)
    tasks,          \* the Task objects of the job, by <<stage, position>>
    rpc,            \* requests and responses in flight driver <-> workers
    runners,        \* the TaskRunner threads created on the workers, by handle
    tasks_running,  \* Worker.tasks_running of every worker
    buckets,        \* Worker.buckets of every worker
    cache,          \* the cache provider's entries on every worker
    cache_locs,     \* Dataset._cache_locs of the cached datasets
    alive,          \* the workers that are alive (ctx.workers)
    yielded,        \* the results the terminal action received, per task
    hist            \* history: what the checks below need to remember

jobVars == <<target, cached, attempts_conf, fail_on, clear_fail_on, job_no, job_state, stages,
             cur, pending, avail, tasks, rpc, runners, tasks_running, buckets,
             cache, cache_locs, alive, yielded, hist>>

AllParts == UNION {Range(parts(d)) : d \in DatasetIds}

TaskIds(stgs) == UNION {{<<s, i>> : i \in 1..Len(stgs[s])} : s \in 1..Len(stgs)}

PartOf(t) == stages[t[1]][t[2]].part

\* whether materializing partition p calls the mapped function f (in this
\* stage: a shuffle reader has no source partition)
RECURSIVE CallsF(_)
CallsF(p) ==
    \/ Datasets[p.dset].kind = "Transforming"
    \/ PartSrc(p) # NoPart /\ CallsF(PartSrc(p))

\* the partition of the mapped dataset in the lineage of p within its stage
RECURSIVE MappedPart(_)
MappedPart(p) ==
    IF Datasets[p.dset].kind = "Transforming" THEN p ELSE MappedPart(PartSrc(p))

\* whether the function mapped over dataset d raises for element e on
\* worker w: f (test_retry's failon) raises for every element on the
\* workers of fail_on, g only for the odd elements
Raises(d, w, e) == w \in fail_on /\ (d = 9 => e % 2 = 1)

\* the index of the first element of data for which the function mapped
\* over d raises on worker w, 0 if it raises for none
FirstRaise(data, d, w) ==
    IF \E i \in 1..Len(data) : Raises(d, w, data[i])
    THEN CHOOSE i \in 1..Len(data) :
            /\ Raises(d, w, data[i])
            /\ \A j \in 1..(i - 1) : ~Raises(d, w, data[j])
    ELSE 0

(***************************************************************************)
(* bndl/execute/job.py: Task and RmiTask                                   *)
(***************************************************************************)
NoHandle == <<>>
NoFuture == [state |-> "none", value |-> <<>>]
PendingFuture == [state |-> "pending", value |-> <<>>]

\* Task.__init__ / RmiTask.__init__, with the worker lists schedule_stage
\* computed for the task
NewTask(preferred_workers, allowed_workers) ==
    [future |-> NoFuture, handle |-> NoHandle, executed_on |-> <<>>, attempts |-> 0,
     cancelled |-> FALSE,
     preferred_workers |-> preferred_workers, allowed_workers |-> allowed_workers]

\* Task.done, Task.pending, Task.succeeded, Task.failed
TaskDone(tk) == tk.future.state \in {"result", "exception"}
TaskPending(tk) == tk.future.state = "pending"
TaskSucceeded(tk) == tk.future.state = "result"
TaskFailed(tk) == tk.future.state = "exception"

\* Task.set_executing (the caller checks not cancelled and not pending)
SetExecuting(tk, w) ==
    [tk EXCEPT !.executed_on = Append(@, w), !.attempts = @ + 1]

\* RmiTask.execute: a fresh future; the execute_async request is sent by
\* the action
RmiExecute(tk, w) == [SetExecuting(tk, w) EXCEPT !.future = PendingFuture]

\* RmiTask._last_worker
LastWorker(tk) ==
    IF tk.executed_on = <<>> THEN None ELSE tk.executed_on[Len(tk.executed_on)]

\* RmiTask._task_completed, the except branch swallowing the exception
TaskCompletedSwallowing(tk, outcome) ==
    [tk EXCEPT !.handle = NoHandle,
               !.future = IF tk.future.state = "pending"
                          THEN [state |-> "result", value |-> <<>>]
                          ELSE @]

\* RmiTask._task_completed: the future of the task after the response to
\* get_task_result arrived (outcome.state is "result" or "exception")
TaskCompleted(tk, outcome) ==
    [tk EXCEPT !.handle = NoHandle,
               !.future = IF tk.future.state = "pending" THEN outcome ELSE @]

\* Task.cancel and RmiTask.cancel: the task afterwards
RmiCancel(tk) ==
    [tk EXCEPT !.cancelled = IF TaskDone(tk) THEN @ ELSE TRUE,
               !.handle = NoHandle,
               !.future = NoFuture]

\* RmiTask.cancel: the cancel_task requests it sends
RmiCancelSends(tk) ==
    IF tk.handle # NoHandle
    THEN {[type |-> "cancel_task", h |-> tk.handle, w |-> LastWorker(tk),
           outcome |-> NoFuture]}
    ELSE {}

(***************************************************************************)
(* bndl/compute/dataset.py: materializing a partition on a worker          *)
(***************************************************************************)
NoBuckets == [d \in DatasetIds |-> <<>>]

\* CacheProvider.read: the entry of partition p on worker w, if any
CacheHas(ch, w, p) == \E e \in ch[w] : e.part = p
CacheRead(ch, w, p) == (CHOOSE e \in ch[w] : e.part = p).data

\* CacheProvider.write
CacheWrite(ch, w, p, data) ==
    [ch EXCEPT ![w] = {e \in @ : e.part # p} \cup {[part |-> p, data |-> data]}]

\* ShuffleWritingPartition._ensure_buckets
EnsureBuckets(bk, w, d) ==
    IF bk[w][d] = <<>>
    THEN [bk EXCEPT ![w][d] = [j \in 1..Datasets[d].pcount |-> <<>>]]
    ELSE bk

\* ShuffleWritingDataset.partitioner applied to the key of an element (the
\* elements are small naturals, which hash to themselves)
partitioner(e) == e

\* buckets[select_bucket(element) % bucket_count].add(element), for every
\* element of data
RECURSIVE AddToBuckets(_, _, _, _)
AddToBuckets(bk, w, d, data) ==
    IF data = <<>> THEN bk
    ELSE LET e == Head(data)
             j == (partitioner(e) % Len(bk[w][d])) + 1
         IN AddToBuckets([bk EXCEPT ![w][d][j] = Append(@, e)], w, d, Tail(data))

\* Worker.get_bucket: bucket idx of dataset d on worker w (empty if the
\* worker holds no buckets of d)
GetBucket(bk, w, d, idx) ==
    IF bk[w][d] = <<>> THEN <<>> ELSE bk[w][d][idx + 1]

\* ShuffleReadingPartition._materialize on worker w: the local bucket, then
\* the bucket of every other worker
ReadBuckets(bk, w, d, idx, live) ==
    GetBucket(bk, w, d, idx) \o
    Flatten([k \in 1..Cardinality(live \ {w}) |->
                GetBucket(bk, SetToSeq(live \ {w})[k], d, idx)])

\* Partition.materialize(ctx) on worker w: the data and the buckets and cache
\* entries of the workers afterwards
RECURSIVE Materialize(_, _, _, _, _)
Materialize(p, w, bk, ch, live) ==
    LET ds == Datasets[p.dset]
        is_cached == p.dset \in cached
        computed ==
            CASE ds.kind = "Iterable" ->
                    [data |-> Elements(p), bk |-> bk, ch |-> ch]
              [] ds.kind = "Transforming" ->
                    Materialize(PartSrc(p), w, bk, ch, live)
              [] ds.kind = "ShuffleWriting" ->
                    LET r == Materialize(PartSrc(p), w, bk, ch, live)
                    IN [data |-> <<>>,
                        bk |-> AddToBuckets(EnsureBuckets(r.bk, w, p.dset),
                                            w, p.dset, r.data),
                        ch |-> r.ch]
              [] ds.kind = "ShuffleReading" ->
                    [data |-> ReadBuckets(bk, w, ds.src[1], p.idx, live),
                     bk |-> bk, ch |-> ch]
    IN IF is_cached /\ CacheHas(ch, w, p)
       THEN [data |-> CacheRead(ch, w, p), bk |-> bk, ch |-> ch]
       ELSE IF is_cached
       THEN [computed EXCEPT !.ch = CacheWrite(computed.ch, w, p, computed.data)]
       ELSE computed

\* the partitions whose materialize(ctx) runs on worker w when partition p
\* is materialized there: p, and unless p is read from the cache, the
\* partitions its source materializes
RECURSIVE Materializes(_, _, _)
Materializes(p, w, ch) ==
    IF p = NoPart THEN {}
    ELSE IF p.dset \in cached /\ CacheHas(ch, w, p) THEN {p}
    ELSE {p} \cup Materializes(PartSrc(p), w, ch)

\* Partition.cache_loc and Partition.preferred_workers of the partitions of
\* this lineage (no worker preference is set on any dataset)
RECURSIVE PreferredWorkers(_, _, _)
PreferredWorkers(p, locs, workers) ==
    IF locs[p] # None THEN {w \in workers : w = locs[p]}
    ELSE IF PartSrc(p) # NoPart THEN PreferredWorkers(PartSrc(p), locs, workers)
    ELSE {}

\* Partition.allowed_workers (no worker filter is set on any dataset)
AllowedWorkers(p, workers) == workers

\* MaterializePartitionTask._save_cacheloc recording the worker for every
\* partition of a cached dataset
RECURSIVE SaveCachelocAll(_, _, _)
SaveCachelocAll(locs, p, w) ==
    LET l == IF p.dset \in cached
             THEN [q \in DOMAIN locs |-> IF q.dset = p.dset THEN w ELSE locs[q]]
             ELSE locs
    IN IF PartSrc(p) # NoPart THEN SaveCachelocAll(l, PartSrc(p), w) ELSE l

\* MaterializePartitionTask._save_cacheloc keeping a location once recorded
RECURSIVE SaveCachelocOnce(_, _, _)
SaveCachelocOnce(locs, p, w) ==
    LET l == IF p.dset \in cached /\ locs[p] = None
             THEN [locs EXCEPT ![p] = w] ELSE locs
    IN IF PartSrc(p) # NoPart THEN SaveCachelocOnce(l, PartSrc(p), w) ELSE l

\* MaterializePartitionTask._save_cacheloc
RECURSIVE SaveCacheloc(_, _, _)
SaveCacheloc(locs, p, w) ==
    LET l == IF p.dset \in cached THEN [locs EXCEPT ![p] = w] ELSE locs
    IN IF PartSrc(p) # NoPart THEN SaveCacheloc(l, PartSrc(p), w) ELSE l

\* Dataset.cleanup: None, but for a shuffle writing dataset
HasCleanup(d) == Datasets[d].kind = "ShuffleWriting"

\* the cleanup listeners of the job of dataset d, without those of the
\* jobs of the branches of a union
RECURSIVE ListenersOfTrunk(_)
ListenersOfTrunk(d) ==
    (IF HasCleanup(d) THEN {d} ELSE {})
    \cup (IF HasManySrc(d) \/ Datasets[d].src = <<>> THEN {}
          ELSE ListenersOfTrunk(Datasets[d].src[1]))

\* schedule_job: the datasets for which the job of dataset d was given a
\* _cleaner listener, those of the jobs of the branches of a union included
RECURSIVE Listeners(_)
Listeners(d) ==
    (IF HasCleanup(d) THEN {d} ELSE {})
    \cup (IF HasManySrc(d) THEN UNION {Listeners(Datasets[d].src[k]) : k \in 1..Len(Datasets[d].src)}
          ELSE IF Datasets[d].src = <<>> THEN {}
          ELSE Listeners(Datasets[d].src[1]))

\* ShuffleWritingDataset.cleanup of dataset d: clear_bucket(d) is called on
\* every worker of the context, and the result of every call is awaited;
\* the calls which fail are logged.  issued: the calls made, logged: the
\* calls which failed
Cleanup(bk, d, workers, failing) ==
    [bk |-> [w \in Workers |-> IF w \in workers \ failing
                                THEN [bk[w] EXCEPT ![d] = <<>>] ELSE bk[w]],
     issued |-> {<<d, w>> : w \in workers},
     logged |-> {<<d, w>> : w \in workers \cap failing}]

\* the listeners of the job are called: _cleaner calls the cleanup of its
\* dataset if the job has stopped
RECURSIVE Cleaners(_, _, _, _, _)
Cleaners(bk, ds, stopped, workers, failing) ==
    IF ds = {} \/ ~stopped THEN [bk |-> bk, issued |-> {}, logged |-> {}]
    ELSE LET d == CHOOSE x \in ds : TRUE
             c == Cleanup(bk, d, workers, failing)
             rest == Cleaners(c.bk, ds \ {d}, stopped, workers, failing)
         IN [bk |-> rest.bk, issued |-> c.issued \cup rest.issued,
             logged |-> c.logged \cup rest.logged]

(***************************************************************************)
(* bndl/execute/worker.py: TaskRunner and Worker                           *)
(***************************************************************************)
\* run_task_async: the runner of a started task thread
NewRunner(w) == [w |-> w, thread |-> "running", result |-> PendingFuture]

\* TaskRunner.run after the task returned data or raised: the result future
\* is only set when it was not cancelled
RunnerEnds(r, outcome) ==
    [r EXCEPT !.thread = IF outcome.state = "result" THEN "returned" ELSE "raised",
              !.result = IF r.result.state = "cancelled" THEN @ ELSE outcome]

\* Worker.cancel_task for a runner it found: the result future is cancelled
\* and TaskCancelled is raised in the thread if it still runs
RunnerCancelled(r) ==
    [r EXCEPT !.result = IF @.state = "pending"
                         THEN [state |-> "cancelled", value |-> <<>>] ELSE @,
              !.thread = IF @ = "running" THEN "cancelled" ELSE @]

(***************************************************************************)
(* The scheduler: the execution loop of a stage, retries and failure       *)
(***************************************************************************)
Msg(type, h, w, outcome) == [type |-> type, h |-> h, w |-> w, outcome |-> outcome]

TaskOfHandle(h) == <<h[1], h[2]>>

\* the tasks of a freshly scheduled job: schedule_stage computes the
\* allowed and preferred workers of every task
NewTasks(stgs, locs, workers) ==
    [t \in TaskIds(stgs) |->
        LET p == stgs[t[1]][t[2]].part
            allowed_workers == AllowedWorkers(p, workers)
        IN NewTask(PreferredWorkers(p, locs,
                       IF allowed_workers # {} THEN allowed_workers ELSE workers),
                   allowed_workers)]

AllPending(stgs, s) == [i \in 1..Len(stgs[s]) |-> i]

NewHist(stgs) ==
    [starts |-> [t \in TaskIds(stgs) |-> <<>>],
     running_at_fail |-> {},
     cancel_sent |-> {},
     failed_tasks |-> {},
     cancels |-> 0,
     pending_at_cancel |-> {},
     clear_issued |-> {},
     clear_logged |-> {},
     materialized |-> {},
     cache_written |-> {},
     cached_late |-> {},
     marks |-> 0,
     kills |-> 0,
     killed_in |-> 0,
     lost_cache |-> FALSE]

\* step (b) of the execution loop: whether worker w may take task tk
Matches(tk, w) ==
    IF tk.preferred_workers # {} THEN w \in tk.preferred_workers
    ELSE IF tk.allowed_workers # {} THEN w \in tk.allowed_workers
    ELSE TRUE

\* a retried task avoids the workers of its executed_on history where possible
NotExcluded(tk, w) ==
    \/ w \notin Range(tk.executed_on)
    \/ tk.allowed_workers \ Range(tk.executed_on) = {}

\* the position in the pending list of the first task worker w may take
\* (0 if there is none)
FirstMatch(w) ==
    LET ok == {k \in 1..Len(pending) :
                  LET tk == tasks[<<cur, pending[k]>>]
                  IN Matches(tk, w) /\ NotExcluded(tk, w)}
    IN IF ok = {} THEN 0 ELSE CHOOSE k \in ok : \A l \in ok : k <= l

RemoveAt(s, k) == SubSeq(s, 1, k - 1) \o SubSeq(s, k + 1, Len(s))

\* The stage driver takes an available worker, finds the first pending task
\* it may run and submits it: RmiTask.execute
Submit(w) ==
    /\ job_state = "running"
    /\ w \in avail
    /\ FirstMatch(w) # 0
    /\ LET k == FirstMatch(w)
           t == <<cur, pending[k]>>
           h == <<t[1], t[2], Len(hist.starts[t]) + 1>>
       IN /\ ~tasks[t].cancelled
          /\ ~TaskPending(tasks[t])
          /\ tasks' = [tasks EXCEPT ![t] = RmiExecute(@, w)]
          /\ pending' = RemoveAt(pending, k)
          /\ rpc' = rpc \cup {Msg("execute_async", h, w, NoFuture)}
          /\ hist' = [hist EXCEPT !.starts[t] = Append(@, w)]
    /\ avail' = avail \ {w}
    /\ UNCHANGED <<target, cached, attempts_conf, fail_on, clear_fail_on, job_no, job_state,
                   stages, cur, runners, tasks_running, buckets, cache,
                   cache_locs, alive, yielded>>

\* Worker.run_task_async: the task thread is started and registered, its
\* id is the response
RunTaskAsync(m) ==
    /\ m \in rpc
    /\ m.type = "execute_async"
    /\ runners' = (m.h :> NewRunner(m.w)) @@ runners
    /\ tasks_running' = [tasks_running EXCEPT ![m.w] = @ \cup {m.h}]
    /\ rpc' = (rpc \ {m}) \cup {Msg("scheduled", m.h, m.w, NoFuture)}
    /\ UNCHANGED <<target, cached, attempts_conf, fail_on, clear_fail_on, job_no, job_state,
                   stages, cur, pending, avail, tasks, buckets, cache,
                   cache_locs, alive, yielded, hist>>

\* RmiTask._task_scheduled: the handle is stored and get_task_result is
\* requested from _last_worker
TaskScheduled(m) ==
    /\ m \in rpc
    /\ m.type = "scheduled"
    /\ LET t == TaskOfHandle(m.h)
       IN /\ tasks' = [tasks EXCEPT ![t].handle = m.h]
          /\ rpc' = (rpc \ {m}) \cup
                    {Msg("get_task_result", m.h, LastWorker(tasks[t]), NoFuture)}
    /\ UNCHANGED <<target, cached, attempts_conf, fail_on, clear_fail_on, job_no, job_state,
                   stages, cur, pending, avail, runners, tasks_running, buckets,
                   cache, cache_locs, alive, yielded, hist>>

\* The task thread runs materialize_partition to its end.  The mapped
\* function is applied lazily, element by element: when it raises, a
\* shuffle writing partition has put the elements before that one into its
\* buckets, and the source of the mapped partition has been cached.
\* Otherwise the partition is materialized; only the tasks of the last
\* stage return their data
RunnerEndsFrom(h, track, before) ==
    /\ h \in DOMAIN runners
    /\ runners[h].thread = before
    /\ LET w == runners[h].w
           p == PartOf(TaskOfHandle(h))
           r == Materialize(p, w, buckets, cache, alive)
           src == Materialize(PartSrc(MappedPart(p)), w, buckets, cache, alive)
           k == FirstRaise(src.data, MappedPart(p).dset, w)
       IN IF CallsF(p) /\ k > 0
          THEN /\ runners' = [runners EXCEPT ![h] =
                     RunnerEnds(@, [state |-> "exception", value |-> <<>>])]
               /\ buckets' = IF Datasets[p.dset].kind = "ShuffleWriting"
                             THEN AddToBuckets(EnsureBuckets(src.bk, w, p.dset),
                                               w, p.dset, SubSeq(src.data, 1, k - 1))
                             ELSE src.bk
               /\ cache' = src.ch
               /\ hist' = IF ~track THEN hist ELSE [hist EXCEPT
                    !.materialized = @ \cup
                        {<<q, w>> : q \in Materializes(PartSrc(MappedPart(p)), w, cache)},
                    !.cache_written = @ \cup {<<e.part, w>> : e \in src.ch[w] \ cache[w]}]
          ELSE /\ runners' = [runners EXCEPT ![h] =
                     RunnerEnds(@, [state |-> "result",
                                    value |-> IF h[1] = Len(stages)
                                              THEN r.data ELSE <<>>])]
               /\ buckets' = r.bk
               /\ cache' = r.ch
               /\ hist' = IF ~track THEN hist ELSE [hist EXCEPT
                    !.materialized = @ \cup {<<q, w>> : q \in Materializes(p, w, cache)},
                    !.cache_written = @ \cup {<<e.part, w>> : e \in r.ch[w] \ cache[w]}]
    /\ UNCHANGED <<target, cached, attempts_conf, fail_on, clear_fail_on, job_no, job_state,
                   stages, cur, pending, avail, tasks, rpc, tasks_running,
                   cache_locs, alive, yielded>>

\* the thread of a task which was not cancelled ends
RunnerThreadEnds(h, track) == RunnerEndsFrom(h, track, "running")

\* the same, where the history of materializations is not needed
ThreadEnds(h) == RunnerThreadEnds(h, FALSE)

\* The thread ends although cancel_task has cancelled its result future and
\* set TaskCancelled for it: it had passed the last point at which the
\* interpreter raises the exception, or its call_soon_threadsafe was
\* queued behind cancel_task.  TaskRunner.run tests result.cancelled()
\* before set_exception, but not before set_result, which raises
\* InvalidStateError on the cancelled future
ThreadEndsLate(h) == RunnerEndsFrom(h, FALSE, "cancelled")

\* Worker.get_task_result: waits for the result future of the runner, then
\* removes it from tasks_running.  A cancelled future ends the coroutine
\* with CancelledError, for which _handle_request sends no response.  On a
\* worker that did not issue the handle tasks_running.get returns None and
\* the coroutine raises at once.
GetTaskResult(m) ==
    /\ m \in rpc
    /\ m.type = "get_task_result"
    /\ IF runners[m.h].w # m.w
       THEN /\ rpc' = (rpc \ {m}) \cup
                      {Msg("completed", m.h, m.w, [state |-> "exception", value |-> <<>>])}
            /\ UNCHANGED tasks_running
       ELSE /\ runners[m.h].result.state # "pending"
            /\ tasks_running' = [tasks_running EXCEPT ![m.w] = @ \ {m.h}]
            /\ rpc' = IF runners[m.h].result.state = "cancelled"
                      THEN rpc \ {m}
                      ELSE (rpc \ {m}) \cup
                           {Msg("completed", m.h, m.w, runners[m.h].result)}
    /\ UNCHANGED <<target, cached, attempts_conf, fail_on, clear_fail_on, job_no, job_state,
                   stages, cur, pending, avail, tasks, runners, buckets, cache,
                   cache_locs, alive, yielded, hist>>

\* the stage cancels its tasks: Task.cancel / RmiTask.cancel of each
CancelStage(tks, s) ==
    [t \in DOMAIN tks |-> IF t[1] = s THEN RmiCancel(tks[t]) ELSE tks[t]]

CancelStageSends(tks, s) ==
    UNION {RmiCancelSends(tks[t]) : t \in {u \in DOMAIN tks : u[1] = s}}

\* RmiTask._task_completed, and what the stage does when the task stopped:
\* the worker is available again; a failed task is retried while it has
\* attempts left, otherwise the stage cancels its tasks and the job fails;
\* the result of a task of the last stage is handed to the caller
\* (MaterializePartitionTask.result)
TaskCompletes(m) ==
    /\ m \in rpc
    /\ m.type = "completed"
    /\ LET t == TaskOfHandle(m.h)
           tk == TaskCompleted(tasks[t], m.outcome)
           tks == [tasks EXCEPT ![t] = tk]
           retry == TaskFailed(tk) /\ tk.attempts < attempts_conf
           fails == TaskFailed(tk) /\ ~retry
       IN /\ avail' = avail \cup {m.w}
          /\ IF job_state # "running"
             THEN /\ tasks' = tks
                  /\ rpc' = rpc \ {m}
                  /\ UNCHANGED <<pending, job_state, yielded, cache_locs,
                                 buckets, hist>>
             ELSE IF fails
             THEN /\ tasks' = CancelStage(tks, cur)
                  /\ rpc' = (rpc \ {m}) \cup CancelStageSends(tks, cur)
                  /\ job_state' = "raised"
                  /\ buckets' = Cleaners(buckets, Listeners(target), TRUE, alive,
                                         clear_fail_on).bk
                  /\ hist' = [hist EXCEPT
                        !.clear_issued = @ \cup Cleaners(buckets, Listeners(target), TRUE,
                                                         alive, clear_fail_on).issued,
                        !.clear_logged = @ \cup Cleaners(buckets, Listeners(target), TRUE,
                                                         alive, clear_fail_on).logged,
                        !.failed_tasks = @ \cup {t},
                        !.running_at_fail =
                            {h \in DOMAIN runners : runners[h].thread = "running"},
                        !.cancel_sent =
                            {c.h : c \in CancelStageSends(tks, cur)}]
                  /\ UNCHANGED <<pending, yielded, cache_locs>>
             ELSE /\ tasks' = tks
                  /\ rpc' = rpc \ {m}
                  /\ pending' = IF retry THEN Append(pending, t[2]) ELSE pending
                  /\ yielded' = IF TaskSucceeded(tk) /\ t[1] = Len(stages)
                                THEN [yielded EXCEPT ![t[2]] = Append(@, tk.future.value)]
                                ELSE yielded
                  /\ cache_locs' = IF TaskSucceeded(tk) /\ t[1] = Len(stages)
                                   THEN SaveCacheloc(cache_locs, PartOf(t), LastWorker(tk))
                                   ELSE cache_locs
                  /\ hist' = IF TaskFailed(tk)
                             THEN [hist EXCEPT !.failed_tasks = @ \cup {t}]
                             ELSE hist
                  /\ UNCHANGED <<job_state, buckets>>
    /\ UNCHANGED <<target, cached, attempts_conf, fail_on, clear_fail_on, job_no, stages, cur,
                   runners, tasks_running, cache, alive>>

\* Worker.cancel_task on worker w for task id h: tasks_running and the
\* runners afterwards, and the value returned (whether the exception was
\* set in a thread)
WorkerCancelTask(tr, rn, w, h) ==
    IF h \in tr[w]
    THEN [tasks_running |-> [tr EXCEPT ![w] = @ \ {h}],
          runners |-> [rn EXCEPT ![h] = RunnerCancelled(@)],
          returned |-> rn[h].thread = "running"]
    ELSE [tasks_running |-> tr, runners |-> rn, returned |-> FALSE]

\* Worker.cancel_task
CancelTask(m) ==
    /\ m \in rpc
    /\ m.type = "cancel_task"
    /\ rpc' = rpc \ {m}
    /\ tasks_running' = WorkerCancelTask(tasks_running, runners, m.w, m.h).tasks_running
    /\ runners' = WorkerCancelTask(tasks_running, runners, m.w, m.h).runners
    /\ UNCHANGED <<target, cached, attempts_conf, fail_on, clear_fail_on, job_no, job_state,
                   stages, cur, pending, avail, tasks, buckets, cache,
                   cache_locs, alive, yielded, hist>>

\* The thread in which cancel_task set TaskCancelled reaches the point at
\* which the interpreter raises it: TaskRunner.run catches the exception
\* and, the result future being cancelled, sets nothing
TaskCancelledRaised(h) ==
    /\ h \in DOMAIN runners
    /\ runners[h].thread = "cancelled"
    /\ runners' = [runners EXCEPT ![h] =
            RunnerEnds(@, [state |-> "exception", value |-> <<>>])]
    /\ UNCHANGED <<target, cached, attempts_conf, fail_on, clear_fail_on, job_no, job_state,
                   stages, cur, pending, avail, tasks, rpc, tasks_running, buckets,
                   cache, cache_locs, alive, yielded, hist>>

\* the handle of the attempt of task t that is in progress
CurrentHandle(t) == <<t[1], t[2], Len(hist.starts[t])>>

\* Job.cancel, called by the program at any moment and any number of
\* times: cancel of every task, then the job itself is cancelled
JobCancel ==
    /\ hist.cancels < MaxCancels
    /\ tasks' = [t \in DOMAIN tasks |-> RmiCancel(tasks[t])]
    /\ rpc' = rpc \cup UNION {RmiCancelSends(tasks[t]) : t \in DOMAIN tasks}
    /\ job_state' = IF job_state = "running" THEN "cancelled" ELSE job_state
    /\ hist' = [hist EXCEPT
            !.cancels = @ + 1,
            !.pending_at_cancel = @ \cup
                {CurrentHandle(t) : t \in {u \in DOMAIN tasks : TaskPending(tasks[u])}},
            !.cancel_sent = @ \cup
                {c.h : c \in UNION {RmiCancelSends(tasks[t]) : t \in DOMAIN tasks}}]
    /\ UNCHANGED <<target, cached, attempts_conf, fail_on, clear_fail_on, job_no, stages, cur,
                   pending, avail, runners, tasks_running, buckets, cache,
                   cache_locs, alive, yielded>>

\* Task.mark_failed of a task that is executing, called from outside the
\* task (the worker which holds its result cannot be reached): the task
\* gets a new future with the exception. The task stopped and failed: it
\* is pushed to pending again (the caller marks a task which has attempts
\* left)
MarkFailed(t) ==
    /\ job_state = "running"
    /\ hist.marks < MaxMarks
    /\ t[1] = cur
    /\ TaskPending(tasks[t])
    /\ tasks[t].attempts < attempts_conf
    /\ tasks' = [tasks EXCEPT ![t].future = [state |-> "exception", value |-> <<>>]]
    /\ pending' = Append(pending, t[2])
    /\ hist' = [hist EXCEPT !.marks = @ + 1, !.failed_tasks = @ \cup {t}]
    /\ UNCHANGED <<target, cached, attempts_conf, fail_on, clear_fail_on, job_no, job_state,
                   stages, cur, avail, rpc, runners, tasks_running, buckets, cache,
                   cache_locs, alive, yielded>>

\* Task.mark_done, called from outside the task: a task that is not done
\* gets a new future with the result (none is given); a task that is done
\* is left alone.  A task that is done is not executed any more
MarkDone(t) ==
    /\ job_state = "running"
    /\ hist.marks < MaxMarks
    /\ t[1] = cur
    /\ tasks' = [tasks EXCEPT ![t].future =
            IF TaskDone(tasks[t]) THEN @ ELSE [state |-> "result", value |-> <<>>]]
    /\ pending' = SelectSeq(pending, LAMBDA i : i # t[2])
    /\ hist' = [hist EXCEPT !.marks = @ + 1]
    /\ UNCHANGED <<target, cached, attempts_conf, fail_on, clear_fail_on, job_no, job_state,
                   stages, cur, avail, rpc, runners, tasks_running, buckets, cache,
                   cache_locs, alive, yielded>>

StageSucceeded == \A i \in 1..Len(stages[cur]) : TaskSucceeded(tasks[<<cur, i>>])

\* an eager stage ran to completion: the next stage begins
NextStage ==
    /\ job_state = "running"
    /\ StageSucceeded
    /\ cur < Len(stages)
    /\ cur' = cur + 1
    /\ pending' = AllPending(stages, cur + 1)
    /\ UNCHANGED <<target, cached, attempts_conf, fail_on, clear_fail_on, job_no, job_state,
                   stages, avail, tasks, rpc, runners, tasks_running, buckets,
                   cache, cache_locs, alive, yielded, hist>>

\* the last stage ran to completion: the job stops (its cleanup listeners
\* run) and the terminal action returns
JobReturns ==
    /\ job_state = "running"
    /\ StageSucceeded
    /\ cur = Len(stages)
    /\ job_state' = "returned"
    /\ buckets' = Cleaners(buckets, Listeners(target), TRUE, alive, clear_fail_on).bk
    /\ hist' = [hist EXCEPT
            !.clear_issued = @ \cup Cleaners(buckets, Listeners(target), TRUE, alive,
                                             clear_fail_on).issued,
            !.clear_logged = @ \cup Cleaners(buckets, Listeners(target), TRUE, alive,
                                             clear_fail_on).logged]
    /\ UNCHANGED <<target, cached, attempts_conf, fail_on, clear_fail_on, job_no, stages, cur,
                   pending, avail, tasks, rpc, runners, tasks_running, cache,
                   cache_locs, alive, yielded>>

(***************************************************************************)
(* bndl/util/threads.py: Coordinator                                       *)
(***************************************************************************)
NThreads == 2
MaxCalls == 3
MaxClears == 1

Threads == 1..NThreads
\* the keys work is coordinated by (broadcast.py: the block_spec names)
Keys == {"a", "b"}

VARIABLES
    coord_done,     \* Coordinator._done: the Event of every key, or None
    coord_results,  \* Coordinator._results: the result of every key, or None
    events_set,     \* the Events that are set
    work_log,       \* history: the executions of work for every key, in order
    clears,         \* history: the number of clear(key) calls per key
    calls,          \* history: the number of coordinate calls so far
    thread          \* the position of every thread in coordinate(work, key)

coordVars == <<coord_done, coord_results, events_set, work_log, clears, calls,
               thread>>

IdleThread == [pc |-> "idle", key |-> "a", done |-> None, result |-> None,
               ret |-> "none"]

\* the part of coordinate under the lock, taking no entry in _done for an
\* Event another thread registered
CoordLookupUnregistered(results, done, key) ==
    IF results[key] # None
    THEN [path |-> "result", done |-> None]
    ELSE [path |-> "work", done |-> None]

\* the part of coordinate under the lock: the stored result, the Event of
\* a thread which is doing the work, or the decision to do the work
CoordLookup(results, done, key) ==
    IF results[key] # None
    THEN [path |-> "result", done |-> None]
    ELSE IF done[key] # None
         THEN [path |-> "wait", done |-> done[key]]
         ELSE [path |-> "work", done |-> None]

\* thread t calls coordinate(work, key) and leaves the lock. An Event is
\* created per execution of work, so the key and the execution's number
\* name it; the result of work is the number of the execution for the key
\* that returned it.
Coordinate(t, key) ==
    /\ thread[t].pc = "idle"
    /\ calls < MaxCalls
    /\ calls' = calls + 1
    /\ LET l == CoordLookup(coord_results, coord_done, key)
           e == Len(work_log[key]) + 1
           called == [thread[t] EXCEPT !.key = key]
       IN  CASE l.path = "result" ->
                    /\ thread' = [thread EXCEPT ![t] =
                            [called EXCEPT !.result = coord_results[key],
                                           !.done = None, !.ret = "value"]]
                    /\ UNCHANGED <<coord_done, work_log>>
             [] l.path = "wait" ->
                    /\ thread' = [thread EXCEPT ![t] =
                            [called EXCEPT !.pc = "wait", !.done = l.done,
                                           !.result = None, !.ret = "none"]]
                    /\ UNCHANGED <<coord_done, work_log>>
             [] l.path = "work" ->
                    /\ coord_done' = [coord_done EXCEPT ![key] = e]
                    /\ work_log' = [work_log EXCEPT ![key] = Append(@,
                            [epoch |-> clears[key], outcome |-> "running"])]
                    /\ thread' = [thread EXCEPT ![t] =
                            [called EXCEPT !.pc = "work", !.done = e,
                                           !.result = None, !.ret = "none"]]
    /\ UNCHANGED <<coord_results, events_set, clears>>

\* work() returns and its result is stored: self._results[key] = result
WorkReturns(t) ==
    /\ thread[t].pc = "work"
    /\ coord_results' = [coord_results EXCEPT ![thread[t].key] = thread[t].done]
    /\ work_log' = [work_log EXCEPT
            ![thread[t].key][thread[t].done].outcome = "returned"]
    /\ thread' = [thread EXCEPT ![t].pc = "set", ![t].result = thread[t].done]
    /\ UNCHANGED <<coord_done, events_set, clears, calls>>

\* work() raises: the exception leaves coordinate, nothing is stored and
\* the Event is not set
WorkRaises(t) ==
    /\ thread[t].pc = "work"
    /\ work_log' = [work_log EXCEPT
            ![thread[t].key][thread[t].done].outcome = "raised"]
    /\ thread' = [thread EXCEPT ![t].pc = "idle", ![t].done = None,
                                 ![t].ret = "WorkError"]
    /\ UNCHANGED <<coord_done, coord_results, events_set, clears, calls>>

\* done.set() and return result
DoneSet(t) ==
    /\ thread[t].pc = "set"
    /\ events_set' = events_set \cup {<<thread[t].key, thread[t].done>>}
    /\ thread' = [thread EXCEPT ![t].pc = "idle", ![t].done = None,
                                 ![t].ret = "value"]
    /\ UNCHANGED <<coord_done, coord_results, work_log, clears, calls>>

\* done.wait() returns
DoneWait(t) ==
    /\ thread[t].pc = "wait"
    /\ <<thread[t].key, thread[t].done>> \in events_set
    /\ thread' = [thread EXCEPT ![t].pc = "read"]
    /\ UNCHANGED <<coord_done, coord_results, events_set, work_log, clears, calls>>

\* return self._results[key], a KeyError if the key was cleared
ReadResult(t) ==
    /\ thread[t].pc = "read"
    /\ thread' = [thread EXCEPT
            ![t].pc = "idle",
            ![t].done = None,
            ![t].result = coord_results[thread[t].key],
            ![t].ret = IF coord_results[thread[t].key] # None
                       THEN "value" ELSE "KeyError"]
    /\ UNCHANGED <<coord_done, coord_results, events_set, work_log, clears, calls>>

\* clear(key), under the lock
Clear(key) ==
    /\ Cardinality({c \in Keys \X (1..MaxClears) : c[2] <= clears[c[1]]}) < MaxClears
    /\ coord_done' = [coord_done EXCEPT ![key] = None]
    /\ coord_results' = [coord_results EXCEPT ![key] = None]
    /\ clears' = [clears EXCEPT ![key] = @ + 1]
    /\ UNCHANGED <<events_set, work_log, calls, thread>>

CoordInit ==
    /\ coord_done = [k \in Keys |-> None]
    /\ coord_results = [k \in Keys |-> None]
    /\ events_set = {}
    /\ work_log = [k \in Keys |-> <<>>]
    /\ clears = [k \in Keys |-> 0]
    /\ calls = 0
    /\ thread = [t \in Threads |-> IdleThread]

(***************************************************************************)
(* bndl/rmi/node.py: Invocation and RMIPeerNode, between a calling node    *)
(* and one peer                                                            *)
(***************************************************************************)
MaxReqs == 2

ReqIds == 0..(MaxReqs - 1)
\* what the invoked method does: it returns a value, it raises an
\* exception, it is a coroutine which raises asyncio's CancelledError, or
\* the service has no such method
Methods == {"returns", "raises", "cancelled", "unknown"}

\* the type of the exception the invocation of a method ends with
Raised(method) ==
    CASE method = "raises" -> "ValueError"
      [] method = "cancelled" -> "CancelledError"
      [] method = "unknown" -> "AttributeError"
      [] OTHER -> ""

VARIABLES
    request_ids,    \* the next value of peer._request_ids
    handlers,       \* the req_ids in peer.handlers
    futures,        \* the response_future of every request
    invocation,     \* the position of every Invocation._request coroutine
    connected,      \* whether the connection with the peer is connected
    disconnecting,  \* disconnect has closed the connection, handlers not failed yet
    net,            \* the Requests and Responses in flight
    remote,         \* the handling of every request by the peer
    rmi_hist        \* history: what the checks below need to remember

rmiVars == <<request_ids, handlers, futures, invocation, connected,
             disconnecting, net, remote, rmi_hist>>

Request(req_id, method) ==
    [type |-> "Request", req_id |-> req_id, method |-> method,
     value |-> None, exception |-> ""]

\* the value the method returns for request req_id is req_id + 1
Response(req_id, value, exception) ==
    [type |-> "Response", req_id |-> req_id, method |-> "",
     value |-> value, exception |-> exception]

NoResponse == Response(0, None, "")

NoInvocation == [pc |-> "none", method |-> "returns", outcome |-> "none",
                 value |-> None, cause |-> ""]

\* Connection.send: the message is in flight, or NotConnected is raised
Send(nt, conn, msg) ==
    IF conn THEN [net |-> nt \cup {msg}, raised |-> ""]
    ELSE [net |-> nt, raised |-> "NotConnected"]

\* Invocation._request up to the send: a request id is drawn and a future
\* is registered in the peer's handlers. The invocation has a timeout,
\* which may be long enough never to expire.
Invoke(method) ==
    /\ request_ids < MaxReqs
    /\ request_ids' = request_ids + 1
    /\ futures' = [futures EXCEPT ![request_ids] =
                        [state |-> "pending", response |-> NoResponse]]
    /\ handlers' = handlers \cup {request_ids}
    /\ invocation' = [invocation EXCEPT ![request_ids] =
                        [NoInvocation EXCEPT !.pc = "send", !.method = method]]
    /\ UNCHANGED <<connected, disconnecting, net, remote, rmi_hist>>

\* yield from self.peer.send(request): an exception of send leaves
\* _request before its try block
SendRequest(i) ==
    /\ invocation[i].pc = "send"
    /\ LET sent == Send(net, connected, Request(i, invocation[i].method))
       IN  /\ net' = sent.net
           /\ invocation' = [invocation EXCEPT ![i] =
                    IF sent.raised = ""
                    THEN [@ EXCEPT !.pc = "wait"]
                    ELSE [@ EXCEPT !.pc = "done", !.outcome = sent.raised]]
           /\ rmi_hist' = [rmi_hist EXCEPT !.requests_sent =
                    IF sent.raised = "" THEN @ \cup {i} ELSE @]
    /\ UNCHANGED <<request_ids, handlers, futures, connected, disconnecting,
                   remote>>

\* _handle_request after the invocation of the method: CancelledError
\* returns without a response, a result or another exception is sent by
\* _send_response, which logs NotConnected
SendResponse(nt, conn, req_id, result, exc) ==
    IF exc = "CancelledError" THEN nt
    ELSE Send(nt, conn, Response(req_id, IF exc = "" THEN result ELSE None, exc)).net

\* _handle_request up to the invocation of the method; an unknown service
\* or method is answered with the KeyError or AttributeError
HandleRequest(m) ==
    /\ m.type = "Request"
    /\ remote[m.req_id] = "none"
    /\ IF m.method = "unknown"
       THEN /\ net' = SendResponse(net \ {m}, connected, m.req_id, None,
                                   Raised(m.method))
            /\ remote' = [remote EXCEPT ![m.req_id] = "handled"]
            /\ rmi_hist' = [rmi_hist EXCEPT !.responses[m.req_id] =
                    IF net' # net \ {m} THEN @ + 1 ELSE @]
       ELSE /\ net' = net \ {m}
            /\ remote' = [remote EXCEPT ![m.req_id] = "running"]
            /\ UNCHANGED rmi_hist
    /\ UNCHANGED <<request_ids, handlers, futures, invocation, connected,
                   disconnecting>>

\* the invoked method returns or raises and _handle_request sends the
\* response
MethodEnds(i) ==
    /\ remote[i] = "running"
    /\ remote' = [remote EXCEPT ![i] = "handled"]
    /\ net' = SendResponse(net, connected, i, i + 1, Raised(invocation[i].method))
    /\ rmi_hist' = [rmi_hist EXCEPT !.responses[i] =
            IF net' # net THEN @ + 1 ELSE @]
    /\ UNCHANGED <<request_ids, handlers, futures, invocation, connected,
                   disconnecting>>

\* _handle_response resolving any pending request when the req_id is unknown
HandleResponseOfAny(hs, futs, response) ==
    LET ids == IF response.req_id \in hs THEN {response.req_id} ELSE hs
    IN  [handlers |-> hs \ ids,
         futures |-> [i \in DOMAIN futs |->
            IF i \in ids /\ futs[i].state = "pending"
            THEN [state |-> "result", response |-> response] ELSE futs[i]]]

\* _handle_response which pops the oldest handler, whatever the req_id of
\* the response
HandleResponseOfOldest(hs, futs, response) ==
    IF hs = {} THEN [handlers |-> hs, futures |-> futs]
    ELSE LET oldest == CHOOSE i \in hs : \A j \in hs : i <= j
         IN  [handlers |-> hs \ {oldest},
              futures |-> IF futs[oldest].state = "pending"
                          THEN [futs EXCEPT ![oldest] =
                                    [state |-> "result", response |-> response]]
                          ELSE futs]

\* _handle_response: handlers.pop(req_id) and set_result; the KeyError of
\* an unknown req_id and the InvalidStateError of a future that is done
\* are logged
HandleResponseOf(hs, futs, response) ==
    IF response.req_id \in hs
    THEN [handlers |-> hs \ {response.req_id},
          futures |-> IF futs[response.req_id].state = "pending"
                      THEN [futs EXCEPT ![response.req_id] =
                                [state |-> "result", response |-> response]]
                      ELSE futs]
    ELSE [handlers |-> hs, futures |-> futs]

HandleResponse(m) ==
    /\ m.type = "Response"
    /\ net' = net \ {m}
    /\ handlers' = HandleResponseOf(handlers, futures, m).handlers
    /\ futures' = HandleResponseOf(handlers, futures, m).futures
    /\ rmi_hist' = [rmi_hist EXCEPT !.discarded =
            IF m.req_id \in handlers THEN @ ELSE @ \cup {m.req_id}]
    /\ UNCHANGED <<request_ids, invocation, connected, disconnecting, remote>>

\* asyncio.wait_for times out: it cancels the future and raises
\* TimeoutError, and the finally block deletes the handler
Timeout(i) ==
    /\ invocation[i].pc = "wait"
    /\ futures[i].state = "pending"
    /\ futures' = [futures EXCEPT ![i].state = "cancelled"]
    /\ handlers' = handlers \ {i}
    /\ invocation' = [invocation EXCEPT ![i].pc = "done",
                                        ![i].outcome = "TimeoutError"]
    /\ UNCHANGED <<request_ids, connected, disconnecting, net, remote, rmi_hist>>

\* what _request returns or raises for a response
Outcome(response) ==
    IF response.exception # ""
    THEN [outcome |-> "InvocationException", value |-> None,
          cause |-> response.exception]
    ELSE [outcome |-> "value", value |-> response.value, cause |-> ""]

\* asyncio.wait_for returns the response or raises the future's exception;
\* the finally block deletes the handler
ResponseAwaited(i) ==
    /\ invocation[i].pc = "wait"
    /\ futures[i].state \in {"result", "exception"}
    /\ handlers' = handlers \ {i}
    /\ invocation' = [invocation EXCEPT ![i] =
            IF futures[i].state = "exception"
            THEN [@ EXCEPT !.pc = "done", !.outcome = "NotConnected"]
            ELSE [@ EXCEPT !.pc = "done",
                           !.outcome = Outcome(futures[i].response).outcome,
                           !.value = Outcome(futures[i].response).value,
                           !.cause = Outcome(futures[i].response).cause]]
    /\ UNCHANGED <<request_ids, futures, connected, disconnecting, net,
                   remote, rmi_hist>>

\* disconnect up to the return of super().disconnect: the connection is
\* closed and what was in flight is lost
Disconnect ==
    /\ connected
    /\ connected' = FALSE
    /\ disconnecting' = TRUE
    /\ net' = {}
    /\ UNCHANGED <<request_ids, handlers, futures, invocation, remote, rmi_hist>>

\* disconnect which only clears the handlers
ClearHandlers(hs, futs) ==
    [handlers |-> {}, futures |-> futs]

\* the rest of disconnect: set_exception(NotConnected()) on every handler
\* and handlers.clear(). set_exception raises InvalidStateError on a
\* future that is done, which ends disconnect before the clear.
FailHandlers(hs, futs) ==
    IF \A i \in hs : futs[i].state = "pending"
    THEN [handlers |-> {},
          futures |-> [i \in DOMAIN futs |->
                IF i \in hs THEN [futs[i] EXCEPT !.state = "exception"]
                ELSE futs[i]]]
    ELSE [handlers |-> hs, futures |-> futs]

Disconnected ==
    /\ disconnecting
    /\ disconnecting' = FALSE
    /\ handlers' = FailHandlers(handlers, futures).handlers
    /\ futures' = FailHandlers(handlers, futures).futures
    /\ rmi_hist' = [rmi_hist EXCEPT !.disconnects = @ + 1,
                                    !.outstanding = handlers]
    /\ UNCHANGED <<request_ids, invocation, connected, net, remote>>

RmiInit ==
    /\ request_ids = 0
    /\ handlers = {}
    /\ futures = [i \in ReqIds |-> [state |-> "none", response |-> NoResponse]]
    /\ invocation = [i \in ReqIds |-> NoInvocation]
    /\ connected = TRUE
    /\ disconnecting = FALSE
    /\ net = {}
    /\ remote = [i \in ReqIds |-> "none"]
    /\ rmi_hist = [requests_sent |-> {}, responses |-> [i \in ReqIds |-> 0], discarded |-> {},
                   disconnects |-> 0, outstanding |-> {}]

(***************************************************************************)
(* bndl/net/connection.py: a Connection between a sending end and the      *)
(* receiving end of its peer                                               *)
(***************************************************************************)
NSenders == 2
MaxSends == 2

\* the coroutines which call send on the sending end
Senders == 1..NSenders
\* the two ends of the connection: each is a Connection object
Ends == {"S", "R"}
\* the contents of the messages and of their attachments
Bodies == {1, 2}
AttachmentKey == 5
AttachmentData == 7
\* the messages which are sent: one which is marshalled and has no
\* attachment (att = None), one which is not and has one
Messages == {[body |-> b, marshal |-> b = 1, att |-> IF b = 1 THEN None ELSE AttachmentData] :
                b \in Bodies}

VARIABLES
    conn,           \* per end: the reader was fed EOF, the writer's transport is closing
    wire,           \* the fields written at S and not yet read at R, in order
    write_lock,     \* the sending end's write_lock: its holder and the waiters in line
    sender,         \* the position of every coroutine in send
    receiver,       \* the position of the coroutine in recv at R (disc: whether
                    \* the reader was at EOF or the writer closing at the call)
    conn_hist       \* history: what the checks below need to remember

connVars == <<conn, wire, write_lock, sender, receiver, conn_hist>>

\* reader.at_eof(): EOF was fed and the buffer is empty; nothing is ever
\* written towards S, so its buffer is empty
at_eof(e) == conn[e].eof /\ (e = "R" => wire = <<>>)

is_connected(e) == ~at_eof(e) /\ ~conn[e].closing

\* serialize.dump: the body in the fast binary codec (marshal) or in the
\* generic one, and the attachments by key
Encode(marshalled, body) == 2 * body + (IF marshalled THEN 1 ELSE 0)
Dump(msg) ==
    [marshalled |-> msg.marshal,
     serialized |-> Encode(msg.marshal, msg.body),
     attachments |-> IF msg.att = None THEN <<>> ELSE <<<<AttachmentKey, msg.att>>>>]

\* serialize.load: the message of a body read in the codec the format
\* header tells, None for a body which is not in that codec
Load(marshalled, data, attachments) ==
    [body |-> IF data % 2 = (IF marshalled THEN 1 ELSE 0) THEN data \div 2 ELSE None,
     marshal |-> marshalled,
     att |-> IF attachments = <<>> THEN None ELSE attachments[1][2]]

\* a field on the wire: its value, its size in bytes, whether all of its
\* bytes arrived, and the call of send which wrote it
Field(no, val, size) == [no |-> no, val |-> val, size |-> size, complete |-> TRUE]

\* the format header, and for every attachment its count (first), the
\* length of its key, its key and its length
Header(no, d) ==
    <<Field(no, (IF d.marshalled THEN 1 ELSE 0) + (IF d.attachments # <<>> THEN 2 ELSE 0), 1)>>
    \o (IF d.attachments = <<>> THEN <<>>
        ELSE <<Field(no, Len(d.attachments), 4),
               Field(no, 2, 4), Field(no, d.attachments[1][1], 2), Field(no, 2, 4)>>)
\* the attachment itself, written by its sender callback
Attachment(no, d) == <<Field(no, d.attachments[1][2], 2)>>
\* the length of the message and the message
Body(no, d) == <<Field(no, 2, 4), Field(no, d.serialized, 2)>>

\* writer.write: a transport which is closing drops what is written
Write(w, fields) == IF conn["S"].closing THEN w ELSE w \o fields

NoMessage == [body |-> None, marshal |-> FALSE, att |-> None]
IdleSender == [pc |-> "idle", no |-> 0, dumped |-> Dump(NoMessage)]
IdleReceiver == [pc |-> "idle", expect |-> "fmt", fmt |-> 0, att_count |-> 0,
                 attachments |-> <<>>, key |-> 0, no |-> 0, msg |-> 0,
                 disc |-> FALSE]

\* Connection.send up to the executor: not connected raises NotConnected,
\* otherwise the message is serialized on a thread of the executor
SendCall(s, msg) ==
    /\ sender[s].pc = "idle"
    /\ conn_hist.calls < MaxSends
    /\ LET no == conn_hist.calls + 1
       IN  /\ sender' = IF is_connected("S")
                        THEN [sender EXCEPT ![s] = [pc |-> "dump", no |-> no, dumped |-> Dump(msg)]]
                        ELSE sender
           /\ conn_hist' = [conn_hist EXCEPT
                   !.calls = no,
                   !.sent = Append(@, msg),
                   !.at_call = Append(@, [eof |-> at_eof("S"), closing |-> conn["S"].closing]),
                   !.returned_at_call = Append(@, {i \in 1..Len(conn_hist.send_outcome) : conn_hist.send_outcome[i] # "none"}),
                   !.send_outcome = Append(@, IF is_connected("S") THEN "none" ELSE "NotConnected")]
    /\ UNCHANGED <<conn, wire, write_lock, receiver>>

\* the first part of the frame, written once the write_lock is held: up
\* to the call of the sender of the attachment, or up to drain
WriteFirst(s) ==
    LET d == sender[s].dumped
    IN  /\ wire' = Write(wire, IF d.attachments = <<>>
                               THEN Header(sender[s].no, d) \o Body(sender[s].no, d)
                               ELSE Header(sender[s].no, d))
        /\ sender' = [sender EXCEPT ![s].pc = IF d.attachments = <<>> THEN "drain" ELSE "attach"]
        /\ conn_hist' = [conn_hist EXCEPT !.wrote = @ \cup {sender[s].no}]

\* serialize.dump returns: the write_lock is acquired if it is free and
\* nobody is in line for it, and waited for otherwise
Dumped(s) ==
    /\ sender[s].pc = "dump"
    /\ IF write_lock.holder = None /\ write_lock.waiters = <<>>
       THEN /\ write_lock' = [write_lock EXCEPT !.holder = s]
            /\ WriteFirst(s)
       ELSE /\ write_lock' = [write_lock EXCEPT !.waiters = Append(@, s)]
            /\ sender' = [sender EXCEPT ![s].pc = "lock"]
            /\ UNCHANGED <<wire, conn_hist>>
    /\ UNCHANGED <<conn, receiver>>

\* the first in line gets the write_lock which was released
Acquired(s) ==
    /\ sender[s].pc = "lock"
    /\ write_lock.holder = None
    /\ write_lock.waiters # <<>> /\ Head(write_lock.waiters) = s
    /\ write_lock' = [holder |-> s, waiters |-> Tail(write_lock.waiters)]
    /\ WriteFirst(s)
    /\ UNCHANGED <<conn, receiver>>

\* the sender of the attachment returns: the attachment is written, and
\* the length of the message and the message after it
AttachmentSent(s) ==
    /\ sender[s].pc = "attach"
    /\ wire' = Write(wire, Attachment(sender[s].no, sender[s].dumped)
                           \o Body(sender[s].no, sender[s].dumped))
    /\ sender' = [sender EXCEPT ![s].pc = "drain"]
    /\ UNCHANGED <<conn, write_lock, receiver, conn_hist>>

\* drain returns: the write_lock is released and send returns
Drained(s) ==
    /\ sender[s].pc = "drain"
    /\ write_lock' = [write_lock EXCEPT !.holder = None]
    /\ sender' = [sender EXCEPT ![s] = IdleSender]
    /\ conn_hist' = [conn_hist EXCEPT !.send_outcome[sender[s].no] = "sent"]
    /\ UNCHANGED <<conn, wire, receiver>>

\* Connection.close on an end: the writer is closed under the write_lock;
\* the transport feeds EOF to its own reader, and the peer's reader gets EOF
\* after the bytes which were written
Close(e) ==
    /\ ~conn[e].closing
    /\ e = "S" => write_lock.holder = None /\ write_lock.waiters = <<>>
    /\ conn' = [x \in Ends |-> IF x = e THEN [eof |-> TRUE, closing |-> TRUE]
                                        ELSE [conn[x] EXCEPT !.eof = TRUE]]
    /\ conn_hist' = [conn_hist EXCEPT !.closes = @ + 1]
    /\ UNCHANGED <<wire, write_lock, sender, receiver>>

\* the link breaks: the transports of both ends are closed, and of the
\* bytes on their way the first k fields arrive, followed (cut) by a part
\* of the next field
Break(k, cut) ==
    /\ ~conn["S"].closing /\ ~conn["R"].closing
    /\ k \in 0..Len(wire)
    /\ cut => k < Len(wire) /\ wire[k + 1].size > 1
    /\ wire' = SubSeq(wire, 1, k)
               \o (IF cut THEN <<[wire[k + 1] EXCEPT !.complete = FALSE]>> ELSE <<>>)
    /\ conn' = [x \in Ends |-> [eof |-> TRUE, closing |-> TRUE]]
    /\ conn_hist' = [conn_hist EXCEPT !.breaks = @ + 1]
    /\ UNCHANGED <<write_lock, sender, receiver>>

\* Connection.recv up to the first read: not connected raises NotConnected
RecvCall ==
    /\ receiver.pc = "idle"
    /\ Len(conn_hist.received) <= MaxSends
    /\ IF is_connected("R")
       THEN /\ receiver' = [IdleReceiver EXCEPT !.pc = "read",
                                                !.disc = at_eof("R") \/ conn["R"].closing]
            /\ conn_hist' = conn_hist
       ELSE /\ receiver' = receiver
            /\ conn_hist' = [conn_hist EXCEPT
                    !.received = Append(@, [error |-> "NotConnected", cut |-> "call", no |-> 0,
                                            disc |-> at_eof("R") \/ conn["R"].closing,
                                            msg |-> NoMessage])]
    /\ UNCHANGED <<conn, wire, write_lock, sender>>

\* the exception recv raises for the IncompleteReadError of a read: it is
\* NotConnected when the read got no bytes (e.partial is empty)
RecvErrorAlwaysNotConnected(partial) == "NotConnected"
RecvError(partial) == IF partial = 0 THEN "NotConnected" ELSE "IncompleteReadError"

\* the field recv reads after a field, by the format of the frame
NextExpected(r, val) ==
    CASE r.expect = "fmt" -> IF (val \div 2) % 2 = 1 THEN "att_count" ELSE "len"
      [] r.expect = "att_count" -> IF val > 0 THEN "keylen" ELSE "len"
      [] r.expect = "keylen" -> "key"
      [] r.expect = "key" -> "size"
      [] r.expect = "size" -> "attachment"
      [] r.expect = "attachment" -> IF Len(r.attachments) + 1 < r.att_count THEN "keylen" ELSE "len"
      [] r.expect = "len" -> "msg"
      [] OTHER -> "load"

\* reader.readexactly of the field recv expects: the field when all its
\* bytes are there; at EOF an IncompleteReadError with the bytes that are
\* there
ReadExactly ==
    /\ receiver.pc = "read"
    /\ IF wire # <<>> /\ Head(wire).complete
       THEN LET f == Head(wire)
                nxt == NextExpected(receiver, f.val)
            IN  /\ wire' = Tail(wire)
                /\ receiver' = [receiver EXCEPT
                        !.expect = nxt,
                        !.pc = IF nxt = "load" THEN "load" ELSE "read",
                        !.fmt = IF receiver.expect = "fmt" THEN f.val ELSE @,
                        !.att_count = IF receiver.expect = "att_count" THEN f.val ELSE @,
                        !.key = IF receiver.expect = "key" THEN f.val ELSE @,
                        !.attachments = IF receiver.expect = "attachment"
                                        THEN Append(@, <<receiver.key, f.val>>) ELSE @,
                        !.no = IF receiver.expect = "msg" THEN f.no ELSE @,
                        !.msg = IF receiver.expect = "msg" THEN f.val ELSE @]
                /\ conn_hist' = conn_hist
       ELSE /\ conn["R"].eof
            /\ LET partial == IF wire = <<>> THEN 0 ELSE 1
               IN  conn_hist' = [conn_hist EXCEPT
                       !.received = Append(@, [error |-> RecvError(partial),
                                               cut |-> IF partial = 0 THEN "none" ELSE "some",
                                               disc |-> receiver.disc,
                                               no |-> 0, msg |-> NoMessage])]
            /\ receiver' = IdleReceiver
            /\ wire' = wire
    /\ UNCHANGED <<conn, write_lock, sender>>

\* serialize.load returns on its executor thread and recv returns the message
Loaded ==
    /\ receiver.pc = "load"
    /\ conn_hist' = [conn_hist EXCEPT
            !.received = Append(@, [error |-> "", cut |-> "", no |-> receiver.no,
                                    disc |-> receiver.disc,
                                    msg |-> Load(receiver.fmt % 2 = 1, receiver.msg, receiver.attachments)])]
    /\ receiver' = IdleReceiver
    /\ UNCHANGED <<conn, wire, write_lock, sender>>

ConnInit ==
    /\ conn = [e \in Ends |-> [eof |-> FALSE, closing |-> FALSE]]
    /\ wire = <<>>
    /\ write_lock = [holder |-> None, waiters |-> <<>>]
    /\ sender = [s \in Senders |-> IdleSender]
    /\ receiver = IdleReceiver
    /\ conn_hist = [calls |-> 0, sent |-> <<>>, at_call |-> <<>>,
                    returned_at_call |-> <<>>, send_outcome |-> <<>>, wrote |-> {},
                    received |-> <<>>, closes |-> 0, breaks |-> 0]

(***************************************************************************)
(* bndl/compute/accumulate.py: the AccumulatorService of the driver and    *)
(* the AccumulatorProxy of a worker                                        *)
(***************************************************************************)
MaxUpdates == 2
MaxRegOps == 6

\* the updates, by the order in which they are issued
UpdateNos == 1..MaxUpdates
\* the accumulators of the driver program: a number and a set
AccIds == {"number", "set"}
\* the operators a worker applies to each, and their operands
Ops(id) == IF id = "number" THEN {"+", "-", "*"} ELSE {"add", "discard"}
Operands == {2, 3}
\* Accumulator.__init__: the initial value
Initial(id) == IF id = "number" THEN 1 ELSE {}

VARIABLES
    accumulators,   \* the Accumulator objects: their value, and whether they are
                    \* in AccumulatorService.accumulators
    locks,          \* the Lock objects: their holder, and whether they are in
                    \* AccumulatorService.locks
    acc_net,        \* the _update_accumulator requests on their way to the driver
    acc_link,       \* whether the worker is connected to the driver
    handler,        \* the service thread of the driver handling each update
    acc_hist        \* history: what the checks below need to remember

accVars == <<accumulators, locks, acc_net, acc_link, handler, acc_hist>>

NoUpdate == [no |-> 0, id |-> "number", op |-> "+", value |-> 0]
IdleHandler == [pc |-> "none", update |-> NoUpdate, loaded |-> 0]

\* the value of an accumulator after op was applied to it with an operand
\* which overwrites it
ApplyOverwriting(op, a, v) == IF op \in {"add", "discard"} THEN {v} ELSE v
\* the value of an accumulator after op was applied to it: the augmented
\* assignments, and for another op the method of the value with that name
Apply(op, a, v) ==
    CASE op = "+" -> a + v
      [] op = "-" -> a - v
      [] op = "*" -> a * v
      [] op = "add" -> a \cup {v}
      [] op = "discard" -> a \ {v}

\* an except clause which catches the KeyError of a lookup only
ExceptKeyError(exc) == exc = "KeyError"
\* except Exception: the clause around the with statement catches every
\* exception a statement of the handler raises
ExceptException(exc) == exc \in {"KeyError", "UnboundLocalError", "TypeError", "AttributeError"}

\* a statement of the handler of update n raised exc: it is logged when the
\* except clause catches it, and leaves _update_accumulator otherwise
HandlerRaised(h, n, exc) ==
    IF ExceptException(exc) THEN [h EXCEPT !.logged = @ \cup {n}]
                            ELSE [h EXCEPT !.raised = @ \cup {n}]

\* whether a thread which wants the lock gets it, whoever holds it
LockFreeAlways(holder) == TRUE
\* threading.Lock: a thread which wants the lock gets it when nobody holds it
LockFree(holder) == holder = None

\* AccumulatorProxy.update: the request is sent to the driver and its
\* future is dropped; when the worker is not connected the request fails
\* with NotConnected in that future
ProxyUpdate(id, op, v) ==
    /\ acc_hist.issued < MaxUpdates
    /\ LET u == [no |-> acc_hist.issued + 1, id |-> id, op |-> op, value |-> v]
       IN  /\ acc_net' = IF acc_link THEN acc_net \cup {u} ELSE acc_net
           /\ acc_hist' = [acc_hist EXCEPT !.issued = u.no, !.updates = Append(@, u),
                                           !.lost = IF acc_link THEN @ ELSE @ \cup {u.no}]
    /\ UNCHANGED <<accumulators, locks, acc_link, handler>>

\* the connection of the worker with the driver breaks: the requests which
\* were on their way are lost
LinkBreaks ==
    /\ acc_link
    /\ acc_link' = FALSE
    /\ acc_net' = {}
    /\ acc_hist' = [acc_hist EXCEPT !.lost = @ \cup {u.no : u \in acc_net}]
    /\ UNCHANGED <<accumulators, locks, handler>>

\* AccumulatorService._update_accumulator on a thread of the driver, up to
\* the lock: for an unknown accumulator the lookup of the lock is logged,
\* and the with statement raises for the name lock, which is logged too
UpdateAccumulator(u) ==
    /\ u \in acc_net
    /\ acc_net' = acc_net \ {u}
    /\ IF locks[u.id].registered
       THEN /\ handler' = [handler EXCEPT ![u.no] = [pc |-> "lock", update |-> u, loaded |-> 0]]
            /\ acc_hist' = [acc_hist EXCEPT
                    !.arrived = Append(@, u.no),
                    !.contended = @ \/ \E n \in UpdateNos :
                                        /\ handler[n].pc \in {"lock", "store"}
                                        /\ handler[n].update.id = u.id]
       ELSE /\ handler' = [handler EXCEPT ![u.no] = [pc |-> "done", update |-> u, loaded |-> 0]]
            /\ acc_hist' = HandlerRaised([acc_hist EXCEPT !.arrived = Append(@, u.no),
                                                          !.unknown = @ \cup {u.no}],
                                         u.no, "UnboundLocalError")
    /\ UNCHANGED <<accumulators, locks, acc_link>>

\* with lock: the thread takes the lock and looks the accumulator up, which
\* raises KeyError if it was deregistered (logged, the lock is released);
\* a named method is called on the value and the lock released; for an
\* augmented assignment the value is loaded
WithLock(n) ==
    /\ handler[n].pc = "lock"
    /\ LET u == handler[n].update
       IN  /\ LockFree(locks[u.id].holder)
           /\ IF ~accumulators[u.id].registered
              THEN /\ handler' = [handler EXCEPT ![n].pc = "done"]
                   /\ acc_hist' = HandlerRaised(acc_hist, n, "KeyError")
                   /\ UNCHANGED <<accumulators, locks>>
              ELSE IF u.op \in {"add", "discard"}
              THEN /\ accumulators' = [accumulators EXCEPT
                                            ![u.id].value = Apply(u.op, @, u.value)]
                   /\ handler' = [handler EXCEPT ![n].pc = "done"]
                   /\ acc_hist' = [acc_hist EXCEPT !.applied[n] = @ + 1]
                   /\ UNCHANGED locks
              ELSE /\ handler' = [handler EXCEPT ![n].pc = "store",
                                                 ![n].loaded = accumulators[u.id].value]
                   /\ locks' = [locks EXCEPT ![u.id].holder = n]
                   /\ UNCHANGED <<accumulators, acc_hist>>
    /\ UNCHANGED <<acc_net, acc_link>>

\* accumulator.value op= value: the result is stored, the lock released
Store(n) ==
    /\ handler[n].pc = "store"
    /\ LET u == handler[n].update
       IN  /\ accumulators' = [accumulators EXCEPT
                                    ![u.id].value = Apply(u.op, handler[n].loaded, u.value)]
           /\ locks' = [locks EXCEPT ![u.id].holder = None]
           /\ acc_hist' = [acc_hist EXCEPT !.applied[n] = @ + 1]
    /\ handler' = [handler EXCEPT ![n].pc = "done"]
    /\ UNCHANGED <<acc_net, acc_link>>

\* AccumulatorService._deregister_accumulator
DeregisterAccumulator(id) ==
    /\ accumulators[id].registered
    /\ accumulators' = [accumulators EXCEPT ![id].registered = FALSE]
    /\ locks' = [locks EXCEPT ![id].registered = FALSE]
    /\ acc_hist' = [acc_hist EXCEPT !.deregistered = @ \cup {id}, !.reg_ops = @ + 1]
    /\ UNCHANGED <<acc_net, acc_link, handler>>

\* The program lets go of an accumulator which is in the service: the
\* object is collected and the callback of its weakref.proxy, remove_lock,
\* deletes the lock. The proxy, now dead, stays in accumulators. (After
\* _deregister_accumulator the proxy is gone and no callback is called.)
AccumulatorCollected(id) ==
    /\ accumulators[id].registered
    /\ ~accumulators[id].collected
    /\ accumulators' = [accumulators EXCEPT ![id].collected = TRUE]
    /\ locks' = [locks EXCEPT ![id].registered = FALSE]
    /\ acc_hist' = [acc_hist EXCEPT !.reg_ops = @ + 1]
    /\ UNCHANGED <<acc_net, acc_link, handler>>

\* AccumulatorService._register_accumulator of a new accumulator, under an
\* id no accumulator of the program has
RegisterAccumulator(id) ==
    /\ ~accumulators[id].registered \/ accumulators[id].collected
    /\ accumulators' = [accumulators EXCEPT ![id] =
            [registered |-> TRUE, collected |-> FALSE, value |-> Initial(id)]]
    /\ locks' = [locks EXCEPT ![id] = [registered |-> TRUE, holder |-> None]]
    /\ acc_hist' = [acc_hist EXCEPT !.reg_ops = @ + 1]
    /\ UNCHANGED <<acc_net, acc_link, handler>>

\* AccumulatorService._register_accumulator of both accumulators
AccInit ==
    /\ accumulators = [id \in AccIds |->
            [registered |-> TRUE, collected |-> FALSE, value |-> Initial(id)]]
    /\ locks = [id \in AccIds |-> [registered |-> TRUE, holder |-> None]]
    /\ acc_net = {}
    /\ acc_link = TRUE
    /\ handler = [n \in UpdateNos |-> IdleHandler]
    /\ acc_hist = [issued |-> 0, updates |-> <<>>, lost |-> {}, arrived |-> <<>>,
                   unknown |-> {}, logged |-> {}, raised |-> {}, applied |-> [n \in UpdateNos |-> 0],
                   contended |-> FALSE,
                   deregistered |-> {}, reg_ops |-> 0]

(***************************************************************************)
(* bndl/compute/cache.py: the CacheProvider of a process and the storage   *)
(* containers it keeps in _caches                                          *)
(***************************************************************************)
MaxCacheOps == 5

\* the cache keys (ids of datasets) and object keys (indices of partitions)
CacheKeys == {1, 2}
ObjKeys == {0, 1}
\* the data written
CacheData == {11, 12}
Locations == {"memory", "disk"}

VARIABLES
    caches,         \* _caches: cache key -> object key -> container
    files,          \* the files of the containers on disk, by storage key
    location,       \* the location the provider was constructed with
    cache_hist      \* history: what the checks below need to remember

provVars == <<caches, files, location, cache_hist>>

\* no container under an object key, no dict under a cache key
NoContainer == [loc |-> "none", key |-> <<>>, data |-> None]
NoCache == [present |-> FALSE, objs |-> [o \in ObjKeys |-> NoContainer]]

\* str(cache_key), str(obj_key): the digits of the keys
Str(n) == <<n>>
StorageKey(cache_key, obj_key) == <<Str(cache_key), Str(obj_key)>>

\* StorageContainerFactory(location, ...)(key) followed by container.write(data)
ContainerWrite(fs, loc, key, data) ==
    IF loc = "memory"
    THEN [container |-> [loc |-> loc, key |-> key, data |-> data], files |-> fs]
    ELSE [container |-> [loc |-> loc, key |-> key, data |-> None],
          files |-> [fs EXCEPT ![key] = data]]

\* container.read(): the data, or FileNotFoundError for a missing file
ContainerRead(fs, c) ==
    IF c.loc = "memory" THEN [error |-> "", data |-> c.data]
    ELSE IF fs[c.key] = None THEN [error |-> "FileNotFoundError", data |-> None]
    ELSE [error |-> "", data |-> fs[c.key]]

\* container.clear() of every container of cs
ContainersClear(fs, cs) ==
    [k \in DOMAIN fs |-> IF \E c \in cs : c.loc = "disk" /\ c.key = k THEN None ELSE fs[k]]

\* CacheProvider.read
Read(ch, fs, cache_key, obj_key) ==
    IF ~ch[cache_key].present \/ ch[cache_key].objs[obj_key] = NoContainer
    THEN [error |-> "KeyError", data |-> None]
    ELSE LET r == ContainerRead(fs, ch[cache_key].objs[obj_key])
         IN IF r.error = "FileNotFoundError" THEN [error |-> "KeyError", data |-> None] ELSE r

\* del of every object key of a cache
DelAll(objs, obj_key) == [o \in ObjKeys |-> NoContainer]
\* del _caches[cache_key][obj_key]
Del(objs, obj_key) == [objs EXCEPT ![obj_key] = NoContainer]

\* the entry which the checks expect under each key, None if none
Expect(h, cache_key, objs, data) ==
    [h EXCEPT !.expected = [k \in CacheKeys \X ObjKeys |->
            IF k[1] = cache_key /\ k[2] \in objs THEN data ELSE @[k]],
              !.ops = @ + 1]

\* CacheProvider.write
ProviderWrite(cache_key, obj_key, data) ==
    /\ cache_hist.ops < MaxCacheOps
    /\ LET w == ContainerWrite(files, location, StorageKey(cache_key, obj_key), data)
       IN  /\ files' = w.files
           /\ caches' = [caches EXCEPT ![cache_key].present = TRUE,
                                       ![cache_key].objs[obj_key] = w.container]
    /\ cache_hist' = [Expect(cache_hist, cache_key, {obj_key}, data) EXCEPT
                            !.written = @ \cup {<<cache_key, obj_key>>}]
    /\ UNCHANGED location

\* CacheProvider.read by a caller, which sees the data or the error
ProviderRead(cache_key, obj_key) ==
    /\ cache_hist.ops < MaxCacheOps
    /\ cache_hist' = [cache_hist EXCEPT
            !.ops = @ + 1,
            !.reads = @ \cup {[key |-> <<cache_key, obj_key>>,
                               result |-> Read(caches, files, cache_key, obj_key),
                               expected |-> cache_hist.expected[<<cache_key, obj_key>>],
                               cleared |-> <<cache_key, obj_key>> \in cache_hist.cleared,
                               after_clear |-> cache_hist.cleared # {}]}]
    /\ UNCHANGED <<caches, files, location>>

\* CacheProvider.clear(cache_key, obj_key): KeyError for a key which is not
\* there
ProviderClearObj(cache_key, obj_key) ==
    /\ cache_hist.ops < MaxCacheOps
    /\ IF ~caches[cache_key].present \/ caches[cache_key].objs[obj_key] = NoContainer
       THEN /\ cache_hist' = [cache_hist EXCEPT !.ops = @ + 1,
                                                !.clear_errors = @ + 1]
            /\ UNCHANGED <<caches, files>>
       ELSE /\ files' = ContainersClear(files, {caches[cache_key].objs[obj_key]})
            /\ caches' = [caches EXCEPT ![cache_key].objs = Del(@, obj_key)]
            /\ cache_hist' = [Expect(cache_hist, cache_key, {obj_key}, None) EXCEPT
                                    !.cleared = @ \cup {<<cache_key, obj_key>>}]
    /\ UNCHANGED location

\* CacheProvider.clear(cache_key): KeyError for a key which is not there
ProviderClear(cache_key) ==
    /\ cache_hist.ops < MaxCacheOps
    /\ IF ~caches[cache_key].present
       THEN /\ cache_hist' = [cache_hist EXCEPT !.ops = @ + 1,
                                                !.clear_errors = @ + 1]
            /\ UNCHANGED <<caches, files>>
       ELSE /\ files' = ContainersClear(files,
                            {caches[cache_key].objs[o] : o \in ObjKeys} \ {NoContainer})
            /\ caches' = [caches EXCEPT ![cache_key] = NoCache]
            /\ cache_hist' = [Expect(cache_hist, cache_key, ObjKeys, None) EXCEPT
                                    !.cleared = @ \cup ({cache_key} \X ObjKeys)]
    /\ UNCHANGED location

\* CacheProvider.modify: containers are created at another location from
\* now on
ProviderModify(loc) ==
    /\ cache_hist.ops < MaxCacheOps
    /\ loc # location
    /\ location' = loc
    /\ cache_hist' = [cache_hist EXCEPT !.ops = @ + 1]
    /\ UNCHANGED <<caches, files>>

\* the module when it was imported, and a provider at the default location
ProvInit ==
    /\ caches = [k \in CacheKeys |-> NoCache]
    /\ files = [k \in {StorageKey(c, o) : c \in CacheKeys, o \in ObjKeys} |-> None]
    /\ location = "memory"
    /\ cache_hist = [ops |-> 0, expected |-> [k \in CacheKeys \X ObjKeys |-> None],
                     written |-> {}, cleared |-> {}, reads |-> {}, clear_errors |-> 0]

(***************************************************************************)
(* bndl/compute/dataset.py: Dataset.sort, by a shuffle with a              *)
(* RangePartitioner and a sort of every partition                          *)
(***************************************************************************)
MaxPcount == 3

\* the elements of the dataset that is sorted, which has two partitions
SortValues == {1, 2, 3}
SortParts == 1..2
SortKeys == {"identity", "half"}

\* key(element) for the key functions of the calls
Key(key, e) == IF key = "half" THEN e \div 2 ELSE e

VARIABLES
    sorting         \* the call of sort in progress: its arguments, the
                    \* boundaries, the buckets of the shuffle and the output

sortVars == <<sorting>>

\* a < b or b < a, by the order of the sort
Before(reverse, a, b) == IF reverse THEN a > b ELSE a < b

\* sorted(s, key=key, reverse=reverse): a stable sort
RECURSIVE Sorted(_, _, _)
Sorted(s, key, reverse) ==
    IF s = <<>> THEN <<>>
    ELSE LET rest == Sorted(SubSeq(s, 1, Len(s) - 1), key, reverse)
             x == s[Len(s)]
             n == Cardinality({i \in 1..Len(rest) :
                                ~Before(reverse, Key(key, x), Key(key, rest[i]))})
         IN SubSeq(rest, 1, n) \o <<x>> \o SubSeq(rest, n + 1, Len(rest))

\* sorted(set(samples), reverse=reverse) of the keys of the samples
SortedKeys(keys, reverse) ==
    Sorted(SetToSeq(keys), "identity", reverse)

\* boundaries = [samples[len(samples) * (i + 1) // pcount] for i in range(pcount - 1)]
Boundaries(samples, pcount) ==
    [i \in 1..(pcount - 1) |-> samples[((Len(samples) * i) \div pcount) + 1]]

\* bisect.bisect_left(a, x, lo, hi): the binary search, on a list in any order
RECURSIVE bisect_left(_, _, _, _)
bisect_left(a, x, lo, hi) ==
    IF lo >= hi THEN lo
    ELSE LET mid == (lo + hi) \div 2
         IN IF a[mid + 1] < x THEN bisect_left(a, x, mid + 1, hi)
                              ELSE bisect_left(a, x, lo, mid)

\* a RangePartitioner which does not look at reverse
RangePartitionerForward(boundaries, reverse, value) ==
    bisect_left(boundaries, value, 0, Len(boundaries))
\* RangePartitioner.__call__
RangePartitioner(boundaries, reverse, value) ==
    LET boundary == bisect_left(boundaries, value, 0, Len(boundaries))
    IN IF reverse THEN Len(boundaries) - boundary ELSE boundary

\* ShuffleWritingPartition._materialize: every element of data is added to
\* the bucket select_bucket(element) % bucket_count
RECURSIVE AddToRangeBuckets(_, _, _)
AddToRangeBuckets(bk, c, data) ==
    IF data = <<>> THEN bk
    ELSE LET e == Head(data)
             j == (RangePartitioner(c.boundaries, c.reverse, Key(c.key, e)) % Len(bk)) + 1
         IN AddToRangeBuckets([bk EXCEPT ![j] = Append(@, e)], c, Tail(data))

NoSort ==
    [pc |-> "idle", data |-> <<>>, key |-> "identity", reverse |-> FALSE, pcount |-> 0,
     samples |-> {}, boundaries |-> <<>>, todo |-> {}, buckets |-> <<>>, out |-> <<>>]

\* Dataset.sort up to the shuffle: the dataset is counted and sampled (any
\* subset of a large dataset may be the sample), the boundaries are taken
\* from the sorted keys of the samples, which raises IndexError when there
\* are none and pcount > 1; an empty dataset is returned as it is
SortCall(data, key, reverse, pcount, samples) ==
    /\ sorting.pc = "idle"
    /\ LET size == SeqSum([i \in SortParts |-> Len(data[i])])
           c == [NoSort EXCEPT !.data = data, !.key = key, !.reverse = reverse,
                               !.pcount = pcount, !.samples = samples]
           keys == SortedKeys({Key(key, e) : e \in samples}, reverse)
       IN IF size = 0
          THEN sorting' = [c EXCEPT !.pc = "collected", !.samples = {}]
          ELSE IF keys = <<>> /\ pcount > 1
          THEN sorting' = [c EXCEPT !.pc = "raised"]
          ELSE sorting' = [c EXCEPT !.pc = "shuffle",
                                    !.boundaries = Boundaries(keys, pcount),
                                    !.todo = SortParts,
                                    !.buckets = [j \in 1..pcount |-> <<>>]]

\* the task of a partition of the shuffle writing dataset
SortWriterTask(i) ==
    /\ sorting.pc = "shuffle"
    /\ i \in sorting.todo
    /\ sorting' = [sorting EXCEPT
            !.todo = @ \ {i},
            !.buckets = AddToRangeBuckets(@, sorting, sorting.data[i])]

\* collect() of shuffled.map_partitions(partial(sorted, key=key,
\* reverse=reverse)): the partitions in the order of their index
SortCollect ==
    /\ sorting.pc = "shuffle"
    /\ sorting.todo = {}
    /\ sorting' = [sorting EXCEPT
            !.pc = "collected",
            !.out = Flatten([j \in 1..sorting.pcount |->
                                Sorted(sorting.buckets[j], sorting.key, sorting.reverse)])]

SortInit == sorting = NoSort

(***************************************************************************)
(* bndl/compute/dataset.py: the partitions of one shuffle writing dataset  *)
(* materializing at the same time on one worker, statement by statement    *)
(***************************************************************************)
NWriters == 2

\* the task threads of the worker, one per partition of the dataset
Writers == 1..NWriters
\* the lists of buckets which _ensure_buckets creates: at most one per thread
Vectors == 1..NWriters
\* the elements of the source partition of writer t
WriterData(t) == <<2 * t - 2, 2 * t - 1>>

VARIABLES
    bucket_pcount,  \* dset.pcount of the shuffle writing dataset
    worker_buckets, \* worker.buckets[dset.id]: a list of buckets, or None
    vectors,        \* the lists of buckets created so far
    writer          \* the position of every thread in _materialize, the list
                    \* of buckets it holds and the elements it has to add

writerVars == <<bucket_pcount, worker_buckets, vectors, writer>>

\* buckets = worker.buckets.get(self.dset.id)
EnsureBucketsGet(t) ==
    /\ writer[t].pc = "get"
    /\ writer' = [writer EXCEPT ![t].pc = "test", ![t].buckets = worker_buckets]
    /\ UNCHANGED <<bucket_pcount, worker_buckets, vectors>>

\* if not buckets: a new list of pcount buckets is created and put into
\* worker.buckets; return buckets
EnsureBucketsTest(t) ==
    /\ writer[t].pc = "test"
    /\ IF writer[t].buckets = None
       THEN LET v == Len(vectors) + 1
            IN  /\ vectors' = Append(vectors, [j \in 1..bucket_pcount |-> <<>>])
                /\ worker_buckets' = v
                /\ writer' = [writer EXCEPT ![t].pc = "add", ![t].buckets = v]
       ELSE /\ writer' = [writer EXCEPT ![t].pc = "add"]
            /\ UNCHANGED <<worker_buckets, vectors>>
    /\ UNCHANGED bucket_pcount

\* one round of the loop of _materialize:
\* buckets[select_bucket(element) % bucket_count].add(element)
WriterAdd(t) ==
    /\ writer[t].pc = "add"
    /\ IF writer[t].todo = <<>>
       THEN /\ writer' = [writer EXCEPT ![t].pc = "done"]
            /\ UNCHANGED vectors
       ELSE LET e == Head(writer[t].todo)
                j == (partitioner(e) % bucket_pcount) + 1
            IN  /\ vectors' = [vectors EXCEPT ![writer[t].buckets][j] = Append(@, e)]
                /\ writer' = [writer EXCEPT ![t].todo = Tail(@)]
    /\ UNCHANGED <<bucket_pcount, worker_buckets>>

\* the worker has no buckets of the dataset and no task has started
WriterStart(pcount) ==
    /\ bucket_pcount = pcount
    /\ worker_buckets = None
    /\ vectors = <<>>
    /\ writer = [t \in Writers |-> [pc |-> "get", buckets |-> None, todo |-> WriterData(t)]]

WriterInit == WriterStart(1)

(***************************************************************************)
(* bndl/compute/dataset.py: datasets as objects. A dataset object holds    *)
(* references: its _cache_locs is a reference to a dict object             *)
(***************************************************************************)
MaxClones == 2

\* the functions given as fltr to prefer_workers and allow_workers, numbered
WorkerFilters == 1..2
\* the cache.CacheProvider which Dataset.cache creates
MemoryProvider == 1
\* the indices of the partitions of the datasets
CloneParts == 0..1

VARIABLES
    dset_objs,      \* the dataset objects: the __dict__ of each
    dset_dicts,     \* the dict objects which a _cache_locs refers to
    uuid,           \* the number of calls of uuid.uuid1()
    recorded_locs   \* history: the <<dataset, partition index>> of the
                    \* partitions whose cache location was recorded

cloneVars == <<dset_objs, dset_dicts, uuid, recorded_locs>>

\* Partition.cache_loc of partition idx of dataset object d
PartCacheLoc(d, idx) == dset_dicts[dset_objs[d]._cache_locs][idx]

\* Dataset.cached
DsetCached(d) == dset_objs[d]._cache_provider # None

\* Dataset._with: clone.__dict__ = dict(self.__dict__), the keyword
\* arguments are put into it and clone.id = uuid.uuid1()
With(d, attribute, value) ==
    /\ Len(dset_objs) < 1 + MaxClones
    /\ dset_objs' = Append(dset_objs,
            [[dset_objs[d] EXCEPT ![attribute] = value] EXCEPT !.id = uuid + 1])
    /\ uuid' = uuid + 1
    /\ UNCHANGED <<dset_dicts, recorded_locs>>

\* Dataset.prefer_workers
PreferWorkers(d, fltr) == With(d, "_worker_preference", fltr)

\* Dataset.allow_workers
AllowWorkers(d, fltr) == With(d, "_worker_filter", fltr)

\* Dataset.cache(location) with a location
DsetCache(d) ==
    /\ ~DsetCached(d)
    /\ dset_objs' = [dset_objs EXCEPT ![d]._cache_provider = MemoryProvider]
    /\ UNCHANGED <<dset_dicts, uuid, recorded_locs>>

\* MaterializePartitionTask._save_cacheloc for partition idx of dataset d,
\* a dataset without source, when the task was executed on worker w
SaveCachelocOf(d, idx, w) ==
    /\ DsetCached(d)
    /\ dset_dicts' = [dset_dicts EXCEPT ![dset_objs[d]._cache_locs][idx] = w]
    /\ recorded_locs' = recorded_locs \cup {<<d, idx>>}
    /\ UNCHANGED <<dset_objs, uuid>>

\* Dataset.__init__: one dataset, not cached, no cache locations
CloneInit ==
    /\ dset_objs = <<[id |-> 1, _cache_locs |-> 1, _worker_preference |-> None,
                      _worker_filter |-> None, _cache_provider |-> None]>>
    /\ dset_dicts = <<[idx \in CloneParts |-> None]>>
    /\ uuid = 1
    /\ recorded_locs = {}

(***************************************************************************)
(* bndl/compute/cassandra/dataset.py: the partitions of a scan             *)
(***************************************************************************)
MaxScanParts == 3
MaxTokenRanges == 3
MaxDefaultPcount == 4

VARIABLES
    scan_input,     \* the partitions which partition_ranges returns
    default_pcount, \* ctx.default_pcount
    scan_parts,     \* the partitions which parts() returned
    scan_returned   \* whether parts() has returned

scanVars == <<scan_input, default_pcount, scan_parts, scan_returned>>

\* the sum of a sequence of numbers
RECURSIVE SumSeq(_)
SumSeq(s) == IF s = <<>> THEN 0 ELSE Head(s) + SumSeq(Tail(s))

\* the partitioning with sizes[i] token ranges in partition i: the token
\* ranges are numbered from 1 on, the replicas are named after the partition
RECURSIVE ScanPartitioning(_, _)
ScanPartitioning(sizes, first) ==
    IF sizes = <<>> THEN <<>>
    ELSE ScanPartitioning(SubSeq(sizes, 1, Len(sizes) - 1), first)
            \o <<[replicas |-> Len(sizes),
                  token_ranges |-> [i \in 1..sizes[Len(sizes)] |->
                        first + SumSeq(SubSeq(sizes, 1, Len(sizes) - 1)) + i - 1]]>>

\* one pass of the for loop of parts(): repartitioned
RECURSIVE Repartitioned(_)
Repartitioned(partitions) ==
    IF partitions = <<>> THEN <<>>
    ELSE LET p == Head(partitions)
             mid == Len(p.token_ranges) \div 2
         IN (IF Len(p.token_ranges) = 1 THEN <<>>
             ELSE <<[p EXCEPT !.token_ranges = SubSeq(@, 1, mid)],
                    [p EXCEPT !.token_ranges = SubSeq(@, mid + 1, Len(@))]>>)
            \o Repartitioned(Tail(partitions))

\* the while loop of parts()
RECURSIVE Repartition(_, _)
Repartition(partitions, pcount) ==
    IF Len(partitions) >= pcount THEN partitions
    ELSE IF Len(Repartitioned(partitions)) = Len(partitions) THEN partitions
    ELSE Repartition(Repartitioned(partitions), pcount)

\* CassandraScanDataset.parts
ScanParts ==
    /\ ~scan_returned
    /\ scan_parts' = Repartition(scan_input, default_pcount)
    /\ scan_returned' = TRUE
    /\ UNCHANGED <<scan_input, default_pcount>>

\* a scan of a table with the partitioning given by sizes
ScanStart(sizes, pcount) ==
    /\ scan_input = ScanPartitioning(sizes, 1)
    /\ default_pcount = pcount
    /\ scan_parts = <<>>
    /\ scan_returned = FALSE

ScanInit == ScanStart(<<1>>, 1)

vars == <<jobVars, coordVars, rmiVars, connVars, accVars, provVars, sortVars,
         writerVars, cloneVars, scanVars>>

(***************************************************************************)
(* Specification of one job with failing tasks                             *)
(***************************************************************************)
Targets == {5, 7}

JobInit(tgt, cch, n, f) ==
    /\ target = tgt
    /\ cached = cch
    /\ attempts_conf = n
    /\ fail_on = f
    /\ job_no = 1
    /\ job_state = "running"
    /\ stages = schedule_job(tgt)
    /\ cur = 1
    /\ pending = AllPending(schedule_job(tgt), 1)
    /\ avail = Workers
    /\ tasks = NewTasks(schedule_job(tgt), [p \in AllParts |-> None], Workers)
    /\ rpc = {}
    /\ runners = <<>>
    /\ tasks_running = [w \in Workers |-> {}]
    /\ buckets = [w \in Workers |-> NoBuckets]
    /\ cache = [w \in Workers |-> {}]
    /\ cache_locs = [p \in AllParts |-> None]
    /\ alive = Workers
    /\ yielded = [i \in 1..Len(schedule_job(tgt)[Len(schedule_job(tgt))]) |-> <<>>]
    /\ hist = NewHist(schedule_job(tgt))

\* no terminal action is in progress: a job that is not executed
JobIdle == JobInit(5, {}, 1, {}) /\ clear_fail_on = {}

\* f raises on the first k workers (test_retry: ctx.workers[:1])
Init ==
    /\ \E tgt \in Targets, n \in 1..MaxAttempts, k \in 0..NWorkers :
            JobInit(tgt, {}, n, 1..k)
    /\ clear_fail_on = {}
    /\ CoordInit
    /\ RmiInit
    /\ ConnInit
    /\ AccInit /\ ProvInit /\ SortInit /\ WriterInit /\ CloneInit /\ ScanInit

Next ==
    \/ \E w \in Workers : Submit(w) /\ UNCHANGED <<coordVars, rmiVars, connVars, accVars, provVars, sortVars, writerVars, cloneVars, scanVars>>
    \/ \E m \in rpc : RunTaskAsync(m) /\ UNCHANGED <<coordVars, rmiVars, connVars, accVars, provVars, sortVars, writerVars, cloneVars, scanVars>>
    \/ \E m \in rpc : TaskScheduled(m) /\ UNCHANGED <<coordVars, rmiVars, connVars, accVars, provVars, sortVars, writerVars, cloneVars, scanVars>>
    \/ \E h \in DOMAIN runners : ThreadEnds(h) /\ UNCHANGED <<coordVars, rmiVars, connVars, accVars, provVars, sortVars, writerVars, cloneVars, scanVars>>
    \/ \E m \in rpc : GetTaskResult(m) /\ UNCHANGED <<coordVars, rmiVars, connVars, accVars, provVars, sortVars, writerVars, cloneVars, scanVars>>
    \/ \E m \in rpc : TaskCompletes(m) /\ UNCHANGED <<coordVars, rmiVars, connVars, accVars, provVars, sortVars, writerVars, cloneVars, scanVars>>
    \/ \E m \in rpc : CancelTask(m) /\ UNCHANGED <<coordVars, rmiVars, connVars, accVars, provVars, sortVars, writerVars, cloneVars, scanVars>>
    \/ NextStage /\ UNCHANGED <<coordVars, rmiVars, connVars, accVars, provVars, sortVars, writerVars, cloneVars, scanVars>>
    \/ JobReturns /\ UNCHANGED <<coordVars, rmiVars, connVars, accVars, provVars, sortVars, writerVars, cloneVars, scanVars>>

Spec == Init /\ [][Next]_vars

(***************************************************************************)
(* Specification of repeated terminal actions on a cached dataset, with a  *)
(* worker dying between two of them                                        *)
(***************************************************************************)
\* A worker process is killed between two terminal actions; the driver
\* and the other workers drop it from their peers
KillWorker(w) ==
    /\ job_state = "returned"
    /\ job_no < MaxJobs
    /\ hist.kills < MaxKills
    /\ w \in alive
    /\ alive \ {w} # {}
    /\ alive' = alive \ {w}
    /\ avail' = avail \ {w}
    /\ cache' = [cache EXCEPT ![w] = {}]
    /\ buckets' = [buckets EXCEPT ![w] = NoBuckets]
    /\ tasks_running' = [tasks_running EXCEPT ![w] = {}]
    /\ hist' = [hist EXCEPT !.kills = @ + 1,
                            !.killed_in = job_no,
                            !.lost_cache = @ \/ \E p \in AllParts : cache_locs[p] = w]
    /\ UNCHANGED <<target, cached, attempts_conf, fail_on, clear_fail_on, job_no, job_state,
                   stages, cur, pending, tasks, rpc, runners, cache_locs,
                   yielded>>

\* The terminal action is called again on the same dataset: schedule_job
\* builds a new job for the workers alive now
NextJob ==
    /\ job_state = "returned"
    /\ job_no < MaxJobs
    /\ job_no' = job_no + 1
    /\ job_state' = "running"
    /\ stages' = schedule_job(target)
    /\ cur' = 1
    /\ pending' = AllPending(schedule_job(target), 1)
    /\ avail' = alive
    /\ tasks' = NewTasks(schedule_job(target), cache_locs, alive)
    /\ rpc' = {}
    /\ runners' = <<>>
    /\ yielded' = [i \in DOMAIN yielded |-> <<>>]
    /\ buckets' = Cleaners(buckets, Listeners(target), FALSE, alive, clear_fail_on).bk
    /\ hist' = [NewHist(schedule_job(target)) EXCEPT
                    !.clear_issued = Cleaners(buckets, Listeners(target), FALSE, alive,
                                              clear_fail_on).issued,
                    !.materialized = hist.materialized,
                    !.cache_written = hist.cache_written,
                    !.cached_late = hist.cached_late,
                    !.kills = hist.kills, !.killed_in = hist.killed_in,
                    !.lost_cache = hist.lost_cache]
    /\ UNCHANGED <<target, cached, attempts_conf, fail_on, clear_fail_on, tasks_running,
                   cache, cache_locs, alive>>

\* the steps of the driver and the workers in the execution of a job
JobStep ==
    \/ \E w \in Workers : Submit(w)
    \/ \E m \in rpc : RunTaskAsync(m)
    \/ \E m \in rpc : TaskScheduled(m)
    \/ \E h \in DOMAIN runners : ThreadEnds(h)
    \/ \E m \in rpc : GetTaskResult(m)
    \/ \E m \in rpc : TaskCompletes(m)
    \/ NextStage
    \/ JobReturns

InitCache ==
    /\ \E n \in 1..MaxAttempts : JobInit(5, {4}, n, {})
    /\ clear_fail_on = {}
    /\ CoordInit
    /\ RmiInit
    /\ ConnInit
    /\ AccInit /\ ProvInit /\ SortInit /\ WriterInit /\ CloneInit /\ ScanInit

NextCache ==
    \/ \E w \in Workers : Submit(w) /\ UNCHANGED <<coordVars, rmiVars, connVars, accVars, provVars, sortVars, writerVars, cloneVars, scanVars>>
    \/ \E m \in rpc : RunTaskAsync(m) /\ UNCHANGED <<coordVars, rmiVars, connVars, accVars, provVars, sortVars, writerVars, cloneVars, scanVars>>
    \/ \E m \in rpc : TaskScheduled(m) /\ UNCHANGED <<coordVars, rmiVars, connVars, accVars, provVars, sortVars, writerVars, cloneVars, scanVars>>
    \/ \E h \in DOMAIN runners : ThreadEnds(h) /\ UNCHANGED <<coordVars, rmiVars, connVars, accVars, provVars, sortVars, writerVars, cloneVars, scanVars>>
    \/ \E m \in rpc : GetTaskResult(m) /\ UNCHANGED <<coordVars, rmiVars, connVars, accVars, provVars, sortVars, writerVars, cloneVars, scanVars>>
    \/ \E m \in rpc : TaskCompletes(m) /\ UNCHANGED <<coordVars, rmiVars, connVars, accVars, provVars, sortVars, writerVars, cloneVars, scanVars>>
    \/ NextStage /\ UNCHANGED <<coordVars, rmiVars, connVars, accVars, provVars, sortVars, writerVars, cloneVars, scanVars>>
    \/ JobReturns /\ UNCHANGED <<coordVars, rmiVars, connVars, accVars, provVars, sortVars, writerVars, cloneVars, scanVars>>
    \/ \E w \in Workers : KillWorker(w) /\ UNCHANGED <<coordVars, rmiVars, connVars, accVars, provVars, sortVars, writerVars, cloneVars, scanVars>>
    \/ NextJob /\ UNCHANGED <<coordVars, rmiVars, connVars, accVars, provVars, sortVars, writerVars, cloneVars, scanVars>>

\* the driver and the workers keep taking the steps that are enabled; a
\* worker need not die and the program need not call another action
SpecCache ==
    /\ InitCache
    /\ [][NextCache]_vars
    /\ WF_vars(JobStep /\ UNCHANGED <<coordVars, rmiVars, connVars, accVars, provVars, sortVars, writerVars, cloneVars, scanVars>>)

(***************************************************************************)
(* Specification of a job which the program cancels                        *)
(***************************************************************************)
InitCancel ==
    /\ \E tgt \in Targets : JobInit(tgt, {}, 1, {})
    /\ clear_fail_on = {}
    /\ CoordInit
    /\ RmiInit
    /\ ConnInit
    /\ AccInit /\ ProvInit /\ SortInit /\ WriterInit /\ CloneInit /\ ScanInit

NextCancel ==
    \/ \E w \in Workers : Submit(w) /\ UNCHANGED <<coordVars, rmiVars, connVars, accVars, provVars, sortVars, writerVars, cloneVars, scanVars>>
    \/ \E m \in rpc : RunTaskAsync(m) /\ UNCHANGED <<coordVars, rmiVars, connVars, accVars, provVars, sortVars, writerVars, cloneVars, scanVars>>
    \/ \E m \in rpc : TaskScheduled(m) /\ UNCHANGED <<coordVars, rmiVars, connVars, accVars, provVars, sortVars, writerVars, cloneVars, scanVars>>
    \/ \E h \in DOMAIN runners : ThreadEnds(h) /\ UNCHANGED <<coordVars, rmiVars, connVars, accVars, provVars, sortVars, writerVars, cloneVars, scanVars>>
    \/ \E m \in rpc : GetTaskResult(m) /\ UNCHANGED <<coordVars, rmiVars, connVars, accVars, provVars, sortVars, writerVars, cloneVars, scanVars>>
    \/ \E m \in rpc : TaskCompletes(m) /\ UNCHANGED <<coordVars, rmiVars, connVars, accVars, provVars, sortVars, writerVars, cloneVars, scanVars>>
    \/ \E m \in rpc : CancelTask(m) /\ UNCHANGED <<coordVars, rmiVars, connVars, accVars, provVars, sortVars, writerVars, cloneVars, scanVars>>
    \/ NextStage /\ UNCHANGED <<coordVars, rmiVars, connVars, accVars, provVars, sortVars, writerVars, cloneVars, scanVars>>
    \/ JobReturns /\ UNCHANGED <<coordVars, rmiVars, connVars, accVars, provVars, sortVars, writerVars, cloneVars, scanVars>>
    \/ JobCancel /\ UNCHANGED <<coordVars, rmiVars, connVars, accVars, provVars, sortVars, writerVars, cloneVars, scanVars>>
    \/ \E h \in DOMAIN runners : TaskCancelledRaised(h) /\ UNCHANGED <<coordVars, rmiVars, connVars, accVars, provVars, sortVars, writerVars, cloneVars, scanVars>>

SpecCancel == InitCancel /\ [][NextCancel]_vars

(***************************************************************************)
(* Specification of threads calling coordinate and clear                   *)
(***************************************************************************)
ThreadStep(t) ==
    \/ WorkReturns(t)
    \/ WorkRaises(t)
    \/ DoneSet(t)
    \/ DoneWait(t)
    \/ ReadResult(t)

InitCoord == JobIdle /\ CoordInit /\ RmiInit /\ ConnInit /\ AccInit /\ ProvInit /\ SortInit /\ WriterInit /\ CloneInit /\ ScanInit

NextCoord ==
    \/ \E t \in Threads, k \in Keys : Coordinate(t, k) /\ UNCHANGED <<jobVars, rmiVars, connVars, accVars, provVars, sortVars, writerVars, cloneVars, scanVars>>
    \/ \E t \in Threads : WorkReturns(t) /\ UNCHANGED <<jobVars, rmiVars, connVars, accVars, provVars, sortVars, writerVars, cloneVars, scanVars>>
    \/ \E t \in Threads : WorkRaises(t) /\ UNCHANGED <<jobVars, rmiVars, connVars, accVars, provVars, sortVars, writerVars, cloneVars, scanVars>>
    \/ \E t \in Threads : DoneSet(t) /\ UNCHANGED <<jobVars, rmiVars, connVars, accVars, provVars, sortVars, writerVars, cloneVars, scanVars>>
    \/ \E t \in Threads : DoneWait(t) /\ UNCHANGED <<jobVars, rmiVars, connVars, accVars, provVars, sortVars, writerVars, cloneVars, scanVars>>
    \/ \E t \in Threads : ReadResult(t) /\ UNCHANGED <<jobVars, rmiVars, connVars, accVars, provVars, sortVars, writerVars, cloneVars, scanVars>>
    \/ \E k \in Keys : Clear(k) /\ UNCHANGED <<jobVars, rmiVars, connVars, accVars, provVars, sortVars, writerVars, cloneVars, scanVars>>

\* every thread that is inside coordinate keeps running: work terminates,
\* by returning or by raising. Nobody need call coordinate or clear.
SpecCoord ==
    /\ InitCoord
    /\ [][NextCoord]_vars
    /\ \A t \in Threads : WF_vars(ThreadStep(t) /\ UNCHANGED <<jobVars, rmiVars, connVars, accVars, provVars, sortVars, writerVars, cloneVars, scanVars>>)

(***************************************************************************)
(* Specification of invocations on one peer, which may disconnect          *)
(***************************************************************************)
\* the steps the event loops of the two nodes take when they can
LoopStep ==
    \/ \E i \in ReqIds : SendRequest(i)
    \/ \E m \in net : HandleRequest(m)
    \/ \E i \in ReqIds : MethodEnds(i)
    \/ \E m \in net : HandleResponse(m)
    \/ \E i \in ReqIds : ResponseAwaited(i)
    \/ Disconnected

InitRmi == JobIdle /\ CoordInit /\ RmiInit /\ ConnInit /\ AccInit /\ ProvInit /\ SortInit /\ WriterInit /\ CloneInit /\ ScanInit

NextRmi ==
    \/ \E method \in Methods : Invoke(method) /\ UNCHANGED <<jobVars, coordVars, connVars, accVars, provVars, sortVars, writerVars, cloneVars, scanVars>>
    \/ \E i \in ReqIds : SendRequest(i) /\ UNCHANGED <<jobVars, coordVars, connVars, accVars, provVars, sortVars, writerVars, cloneVars, scanVars>>
    \/ \E m \in net : HandleRequest(m) /\ UNCHANGED <<jobVars, coordVars, connVars, accVars, provVars, sortVars, writerVars, cloneVars, scanVars>>
    \/ \E i \in ReqIds : MethodEnds(i) /\ UNCHANGED <<jobVars, coordVars, connVars, accVars, provVars, sortVars, writerVars, cloneVars, scanVars>>
    \/ \E m \in net : HandleResponse(m) /\ UNCHANGED <<jobVars, coordVars, connVars, accVars, provVars, sortVars, writerVars, cloneVars, scanVars>>
    \/ \E i \in ReqIds : Timeout(i) /\ UNCHANGED <<jobVars, coordVars, connVars, accVars, provVars, sortVars, writerVars, cloneVars, scanVars>>
    \/ \E i \in ReqIds : ResponseAwaited(i) /\ UNCHANGED <<jobVars, coordVars, connVars, accVars, provVars, sortVars, writerVars, cloneVars, scanVars>>
    \/ Disconnect /\ UNCHANGED <<jobVars, coordVars, connVars, accVars, provVars, sortVars, writerVars, cloneVars, scanVars>>
    \/ Disconnected /\ UNCHANGED <<jobVars, coordVars, connVars, accVars, provVars, sortVars, writerVars, cloneVars, scanVars>>

\* the event loops keep running; no timeout need expire, the peer need not
\* disconnect and nobody need invoke a method
SpecRmi ==
    /\ InitRmi
    /\ [][NextRmi]_vars
    /\ WF_vars(LoopStep /\ UNCHANGED <<jobVars, coordVars, connVars, accVars, provVars, sortVars, writerVars, cloneVars, scanVars>>)

(***************************************************************************)
(* Specification of one job over a shuffle of partitions of two elements,  *)
(* with a mapped function g which raises for the second element            *)
(***************************************************************************)
\* g raises on the first k workers
InitShuffle ==
    /\ \E n \in 1..MaxAttempts, k \in 0..NWorkers : JobInit(11, {}, n, 1..k)
    /\ clear_fail_on = {}
    /\ CoordInit
    /\ RmiInit
    /\ ConnInit
    /\ AccInit /\ ProvInit /\ SortInit /\ WriterInit /\ CloneInit /\ ScanInit

NextShuffle ==
    \/ \E w \in Workers : Submit(w) /\ UNCHANGED <<coordVars, rmiVars, connVars, accVars, provVars, sortVars, writerVars, cloneVars, scanVars>>
    \/ \E m \in rpc : RunTaskAsync(m) /\ UNCHANGED <<coordVars, rmiVars, connVars, accVars, provVars, sortVars, writerVars, cloneVars, scanVars>>
    \/ \E m \in rpc : TaskScheduled(m) /\ UNCHANGED <<coordVars, rmiVars, connVars, accVars, provVars, sortVars, writerVars, cloneVars, scanVars>>
    \/ \E h \in DOMAIN runners : ThreadEnds(h) /\ UNCHANGED <<coordVars, rmiVars, connVars, accVars, provVars, sortVars, writerVars, cloneVars, scanVars>>
    \/ \E m \in rpc : GetTaskResult(m) /\ UNCHANGED <<coordVars, rmiVars, connVars, accVars, provVars, sortVars, writerVars, cloneVars, scanVars>>
    \/ \E m \in rpc : TaskCompletes(m) /\ UNCHANGED <<coordVars, rmiVars, connVars, accVars, provVars, sortVars, writerVars, cloneVars, scanVars>>
    \/ \E m \in rpc : CancelTask(m) /\ UNCHANGED <<coordVars, rmiVars, connVars, accVars, provVars, sortVars, writerVars, cloneVars, scanVars>>
    \/ NextStage /\ UNCHANGED <<coordVars, rmiVars, connVars, accVars, provVars, sortVars, writerVars, cloneVars, scanVars>>
    \/ JobReturns /\ UNCHANGED <<coordVars, rmiVars, connVars, accVars, provVars, sortVars, writerVars, cloneVars, scanVars>>

SpecShuffle == InitShuffle /\ [][NextShuffle]_vars

(***************************************************************************)
(* Specification of a terminal action which succeeds or fails and is run   *)
(* once more, with clear_bucket calls that fail when the job stops         *)
(***************************************************************************)
\* f raises on the first k workers, clear_bucket fails on the first j
InitCleanup ==
    /\ \E tgt \in Targets, k \in 0..NWorkers : JobInit(tgt, {}, 1, 1..k)
    /\ \E j \in 0..NWorkers : clear_fail_on = 1..j
    /\ CoordInit
    /\ RmiInit
    /\ ConnInit
    /\ AccInit /\ ProvInit /\ SortInit /\ WriterInit /\ CloneInit /\ ScanInit

NextCleanup ==
    \/ \E w \in Workers : Submit(w) /\ UNCHANGED <<coordVars, rmiVars, connVars, accVars, provVars, sortVars, writerVars, cloneVars, scanVars>>
    \/ \E m \in rpc : RunTaskAsync(m) /\ UNCHANGED <<coordVars, rmiVars, connVars, accVars, provVars, sortVars, writerVars, cloneVars, scanVars>>
    \/ \E m \in rpc : TaskScheduled(m) /\ UNCHANGED <<coordVars, rmiVars, connVars, accVars, provVars, sortVars, writerVars, cloneVars, scanVars>>
    \/ \E h \in DOMAIN runners : ThreadEnds(h) /\ UNCHANGED <<coordVars, rmiVars, connVars, accVars, provVars, sortVars, writerVars, cloneVars, scanVars>>
    \/ \E m \in rpc : GetTaskResult(m) /\ UNCHANGED <<coordVars, rmiVars, connVars, accVars, provVars, sortVars, writerVars, cloneVars, scanVars>>
    \/ \E m \in rpc : TaskCompletes(m) /\ UNCHANGED <<coordVars, rmiVars, connVars, accVars, provVars, sortVars, writerVars, cloneVars, scanVars>>
    \/ \E m \in rpc : CancelTask(m) /\ UNCHANGED <<coordVars, rmiVars, connVars, accVars, provVars, sortVars, writerVars, cloneVars, scanVars>>
    \/ NextStage /\ UNCHANGED <<coordVars, rmiVars, connVars, accVars, provVars, sortVars, writerVars, cloneVars, scanVars>>
    \/ JobReturns /\ UNCHANGED <<coordVars, rmiVars, connVars, accVars, provVars, sortVars, writerVars, cloneVars, scanVars>>
    \/ job_no = 1 /\ NextJob /\ UNCHANGED <<coordVars, rmiVars, connVars, accVars, provVars, sortVars, writerVars, cloneVars, scanVars>>

SpecCleanup == InitCleanup /\ [][NextCleanup]_vars

(***************************************************************************)
(* Specification of the messages sent over one connection which is closed  *)
(* or breaks                                                               *)
(***************************************************************************)
InitConn == JobIdle /\ CoordInit /\ RmiInit /\ ConnInit /\ AccInit /\ ProvInit /\ SortInit /\ WriterInit /\ CloneInit /\ ScanInit

NextConn ==
    \/ \E s \in Senders, msg \in Messages : SendCall(s, msg) /\ UNCHANGED <<jobVars, coordVars, rmiVars, accVars, provVars, sortVars, writerVars, cloneVars, scanVars>>
    \/ \E s \in Senders : Dumped(s) /\ UNCHANGED <<jobVars, coordVars, rmiVars, accVars, provVars, sortVars, writerVars, cloneVars, scanVars>>
    \/ \E s \in Senders : Acquired(s) /\ UNCHANGED <<jobVars, coordVars, rmiVars, accVars, provVars, sortVars, writerVars, cloneVars, scanVars>>
    \/ \E s \in Senders : AttachmentSent(s) /\ UNCHANGED <<jobVars, coordVars, rmiVars, accVars, provVars, sortVars, writerVars, cloneVars, scanVars>>
    \/ \E s \in Senders : Drained(s) /\ UNCHANGED <<jobVars, coordVars, rmiVars, accVars, provVars, sortVars, writerVars, cloneVars, scanVars>>
    \/ \E e \in Ends : Close(e) /\ UNCHANGED <<jobVars, coordVars, rmiVars, accVars, provVars, sortVars, writerVars, cloneVars, scanVars>>
    \/ \E k \in 0..Len(wire), cut \in BOOLEAN : Break(k, cut) /\ UNCHANGED <<jobVars, coordVars, rmiVars, accVars, provVars, sortVars, writerVars, cloneVars, scanVars>>
    \/ RecvCall /\ UNCHANGED <<jobVars, coordVars, rmiVars, accVars, provVars, sortVars, writerVars, cloneVars, scanVars>>
    \/ ReadExactly /\ UNCHANGED <<jobVars, coordVars, rmiVars, accVars, provVars, sortVars, writerVars, cloneVars, scanVars>>
    \/ Loaded /\ UNCHANGED <<jobVars, coordVars, rmiVars, accVars, provVars, sortVars, writerVars, cloneVars, scanVars>>

SpecConn == InitConn /\ [][NextConn]_vars


(***************************************************************************)
(* Specification of the updates of two accumulators by a worker            *)
(***************************************************************************)
InitAcc == JobIdle /\ CoordInit /\ RmiInit /\ ConnInit /\ AccInit /\ ProvInit /\ SortInit /\ WriterInit /\ CloneInit /\ ScanInit

NextAcc ==
    \/ \E id \in AccIds : \E op \in Ops(id), v \in Operands :
            ProxyUpdate(id, op, v) /\ UNCHANGED <<jobVars, coordVars, rmiVars, connVars, provVars, sortVars, writerVars, cloneVars, scanVars>>
    \/ LinkBreaks /\ UNCHANGED <<jobVars, coordVars, rmiVars, connVars, provVars, sortVars, writerVars, cloneVars, scanVars>>
    \/ \E u \in acc_net : UpdateAccumulator(u) /\ UNCHANGED <<jobVars, coordVars, rmiVars, connVars, provVars, sortVars, writerVars, cloneVars, scanVars>>
    \/ \E n \in UpdateNos : WithLock(n) /\ UNCHANGED <<jobVars, coordVars, rmiVars, connVars, provVars, sortVars, writerVars, cloneVars, scanVars>>
    \/ \E n \in UpdateNos : Store(n) /\ UNCHANGED <<jobVars, coordVars, rmiVars, connVars, provVars, sortVars, writerVars, cloneVars, scanVars>>
    \/ \E id \in AccIds : DeregisterAccumulator(id) /\ UNCHANGED <<jobVars, coordVars, rmiVars, connVars, provVars, sortVars, writerVars, cloneVars, scanVars>>

SpecAcc == InitAcc /\ [][NextAcc]_vars

(***************************************************************************)
(* Specification of the registrations, deregistrations and collections of  *)
(* accumulators                                                            *)
(***************************************************************************)
InitReg == JobIdle /\ CoordInit /\ RmiInit /\ ConnInit /\ AccInit /\ ProvInit /\ SortInit /\ WriterInit /\ CloneInit /\ ScanInit

NextReg ==
    \/ \E id \in AccIds :
            /\ acc_hist.reg_ops < MaxRegOps
            /\ RegisterAccumulator(id) /\ UNCHANGED <<jobVars, coordVars, rmiVars, connVars, provVars, sortVars, writerVars, cloneVars, scanVars>>
    \/ \E id \in AccIds :
            /\ acc_hist.reg_ops < MaxRegOps
            /\ DeregisterAccumulator(id) /\ UNCHANGED <<jobVars, coordVars, rmiVars, connVars, provVars, sortVars, writerVars, cloneVars, scanVars>>
    \/ \E id \in AccIds :
            /\ acc_hist.reg_ops < MaxRegOps
            /\ AccumulatorCollected(id) /\ UNCHANGED <<jobVars, coordVars, rmiVars, connVars, provVars, sortVars, writerVars, cloneVars, scanVars>>

SpecReg == InitReg /\ [][NextReg]_vars

(***************************************************************************)
(* Specification of two terminal actions on a dataset, where the program   *)
(* caches datasets of the lineage before and between them                  *)
(***************************************************************************)
\* Dataset.cache() on the driver, for a dataset without a cache provider
CacheDataset(d) ==
    /\ job_state = "returned"
    /\ job_no = 1
    /\ d \notin cached
    /\ cached' = cached \cup {d}
    /\ hist' = [hist EXCEPT !.cached_late = @ \cup {d}]
    /\ UNCHANGED <<target, attempts_conf, fail_on, clear_fail_on, job_no, job_state, stages,
                   cur, pending, avail, tasks, rpc, runners, tasks_running, buckets,
                   cache, cache_locs, alive, yielded>>

\* the datasets of the last stage of the target
Cacheable == {4, 5}

InitRecache ==
    /\ \E cch \in SUBSET Cacheable : JobInit(5, cch, 1, {})
    /\ clear_fail_on = {}
    /\ CoordInit
    /\ RmiInit
    /\ ConnInit
    /\ AccInit /\ ProvInit /\ SortInit /\ WriterInit /\ CloneInit /\ ScanInit

NextRecache ==
    \/ \E w \in Workers : Submit(w) /\ UNCHANGED <<coordVars, rmiVars, connVars, accVars, provVars, sortVars, writerVars, cloneVars, scanVars>>
    \/ \E m \in rpc : RunTaskAsync(m) /\ UNCHANGED <<coordVars, rmiVars, connVars, accVars, provVars, sortVars, writerVars, cloneVars, scanVars>>
    \/ \E m \in rpc : TaskScheduled(m) /\ UNCHANGED <<coordVars, rmiVars, connVars, accVars, provVars, sortVars, writerVars, cloneVars, scanVars>>
    \/ \E h \in DOMAIN runners :
            RunnerThreadEnds(h, TRUE) /\ UNCHANGED <<coordVars, rmiVars, connVars, accVars, provVars, sortVars, writerVars, cloneVars, scanVars>>
    \/ \E m \in rpc : GetTaskResult(m) /\ UNCHANGED <<coordVars, rmiVars, connVars, accVars, provVars, sortVars, writerVars, cloneVars, scanVars>>
    \/ \E m \in rpc : TaskCompletes(m) /\ UNCHANGED <<coordVars, rmiVars, connVars, accVars, provVars, sortVars, writerVars, cloneVars, scanVars>>
    \/ NextStage /\ UNCHANGED <<coordVars, rmiVars, connVars, accVars, provVars, sortVars, writerVars, cloneVars, scanVars>>
    \/ JobReturns /\ UNCHANGED <<coordVars, rmiVars, connVars, accVars, provVars, sortVars, writerVars, cloneVars, scanVars>>
    \/ job_no = 1 /\ NextJob /\ UNCHANGED <<coordVars, rmiVars, connVars, accVars, provVars, sortVars, writerVars, cloneVars, scanVars>>
    \/ \E d \in Cacheable :
            CacheDataset(d) /\ UNCHANGED <<coordVars, rmiVars, connVars, accVars, provVars, sortVars, writerVars, cloneVars, scanVars>>

SpecRecache == InitRecache /\ [][NextRecache]_vars

(***************************************************************************)
(* Specification of the calls of a process on its cache provider           *)
(***************************************************************************)
InitProv == JobIdle /\ CoordInit /\ RmiInit /\ ConnInit /\ AccInit /\ ProvInit /\ SortInit /\ WriterInit /\ CloneInit /\ ScanInit

NextProv ==
    \/ \E k \in CacheKeys, o \in ObjKeys, d \in CacheData :
            ProviderWrite(k, o, d) /\ UNCHANGED <<jobVars, coordVars, rmiVars, connVars, accVars, sortVars, writerVars, cloneVars, scanVars>>
    \/ \E k \in CacheKeys, o \in ObjKeys :
            ProviderRead(k, o) /\ UNCHANGED <<jobVars, coordVars, rmiVars, connVars, accVars, sortVars, writerVars, cloneVars, scanVars>>
    \/ \E k \in CacheKeys, o \in ObjKeys :
            ProviderClearObj(k, o) /\ UNCHANGED <<jobVars, coordVars, rmiVars, connVars, accVars, sortVars, writerVars, cloneVars, scanVars>>
    \/ \E k \in CacheKeys :
            ProviderClear(k) /\ UNCHANGED <<jobVars, coordVars, rmiVars, connVars, accVars, sortVars, writerVars, cloneVars, scanVars>>
    \/ \E loc \in Locations :
            ProviderModify(loc) /\ UNCHANGED <<jobVars, coordVars, rmiVars, connVars, accVars, sortVars, writerVars, cloneVars, scanVars>>

SpecProv == InitProv /\ [][NextProv]_vars

(***************************************************************************)
(* Specification of a call of sort on a dataset of two partitions          *)
(***************************************************************************)
\* the partitions a dataset may have: up to two elements
SortPartitions == UNION {[1..n -> SortValues] : n \in 0..2}

InitSort == JobIdle /\ CoordInit /\ RmiInit /\ ConnInit /\ AccInit /\ ProvInit /\ SortInit /\ WriterInit /\ CloneInit /\ ScanInit

NextSort ==
    \/ \E data \in [SortParts -> SortPartitions], key \in SortKeys, reverse \in BOOLEAN,
          pcount \in 1..MaxPcount :
        \E samples \in SUBSET UNION {Range(data[i]) : i \in SortParts} :
            /\ SortCall(data, key, reverse, pcount, samples)
            /\ UNCHANGED <<jobVars, coordVars, rmiVars, connVars, accVars, provVars, writerVars, cloneVars, scanVars>>
    \/ \E i \in SortParts :
            SortWriterTask(i) /\ UNCHANGED <<jobVars, coordVars, rmiVars, connVars, accVars, provVars, writerVars, cloneVars, scanVars>>
    \/ SortCollect /\ UNCHANGED <<jobVars, coordVars, rmiVars, connVars, accVars, provVars, writerVars, cloneVars, scanVars>>

SpecSort == InitSort /\ [][NextSort]_vars

(***************************************************************************)
(* Specification of the writer partitions of one shuffle on one worker     *)
(***************************************************************************)
InitWriters ==
    /\ JobIdle /\ CoordInit /\ RmiInit /\ ConnInit /\ AccInit /\ ProvInit /\ SortInit
    /\ \E pcount \in 1..MaxPcount : WriterStart(pcount)
    /\ CloneInit /\ ScanInit

NextWriters ==
    \/ \E t \in Writers :
            EnsureBucketsGet(t) /\ UNCHANGED <<jobVars, coordVars, rmiVars, connVars, accVars, provVars, sortVars, cloneVars, scanVars>>
    \/ \E t \in Writers :
            EnsureBucketsTest(t) /\ UNCHANGED <<jobVars, coordVars, rmiVars, connVars, accVars, provVars, sortVars, cloneVars, scanVars>>
    \/ \E t \in Writers :
            WriterAdd(t) /\ UNCHANGED <<jobVars, coordVars, rmiVars, connVars, accVars, provVars, sortVars, cloneVars, scanVars>>

SpecWriters == InitWriters /\ [][NextWriters]_vars

(***************************************************************************)
(* Specification of a dataset and its clones                               *)
(***************************************************************************)
InitClone ==
    /\ JobIdle /\ CoordInit /\ RmiInit /\ ConnInit /\ AccInit /\ ProvInit /\ SortInit
    /\ WriterInit /\ CloneInit /\ ScanInit

NextClone ==
    \/ \E d \in DOMAIN dset_objs, fltr \in WorkerFilters :
            PreferWorkers(d, fltr) /\ UNCHANGED <<jobVars, coordVars, rmiVars, connVars, accVars, provVars, sortVars, writerVars, scanVars>>
    \/ \E d \in DOMAIN dset_objs, fltr \in WorkerFilters :
            AllowWorkers(d, fltr) /\ UNCHANGED <<jobVars, coordVars, rmiVars, connVars, accVars, provVars, sortVars, writerVars, scanVars>>
    \/ \E d \in DOMAIN dset_objs :
            DsetCache(d) /\ UNCHANGED <<jobVars, coordVars, rmiVars, connVars, accVars, provVars, sortVars, writerVars, scanVars>>
    \/ \E d \in DOMAIN dset_objs, idx \in CloneParts, w \in Workers :
            SaveCachelocOf(d, idx, w) /\ UNCHANGED <<jobVars, coordVars, rmiVars, connVars, accVars, provVars, sortVars, writerVars, scanVars>>

SpecClone == InitClone /\ [][NextClone]_vars

(***************************************************************************)
(* Specification of the partitions of a scan of a Cassandra table          *)
(***************************************************************************)
InitScan ==
    /\ JobIdle /\ CoordInit /\ RmiInit /\ ConnInit /\ AccInit /\ ProvInit /\ SortInit
    /\ WriterInit /\ CloneInit
    /\ \E n \in 1..MaxScanParts, pcount \in 1..MaxDefaultPcount :
        \E sizes \in [1..n -> 1..MaxTokenRanges] : ScanStart(sizes, pcount)

NextScan ==
    ScanParts /\ UNCHANGED <<jobVars, coordVars, rmiVars, connVars, accVars, provVars, sortVars, writerVars, cloneVars>>

SpecScan == InitScan /\ [][NextScan]_vars

(***************************************************************************)
(* Specification of one job on a union of datasets, or on a shuffle of one *)
(***************************************************************************)
UnionTargets == {7, 12, 13, 15}

InitUnion ==
    /\ \E tgt \in UnionTargets : JobInit(tgt, {}, 1, {})
    /\ clear_fail_on = {}
    /\ CoordInit
    /\ RmiInit
    /\ ConnInit
    /\ AccInit /\ ProvInit /\ SortInit /\ WriterInit /\ CloneInit /\ ScanInit

NextUnion ==
    \/ \E w \in Workers : Submit(w) /\ UNCHANGED <<coordVars, rmiVars, connVars, accVars, provVars, sortVars, writerVars, cloneVars, scanVars>>
    \/ \E m \in rpc : RunTaskAsync(m) /\ UNCHANGED <<coordVars, rmiVars, connVars, accVars, provVars, sortVars, writerVars, cloneVars, scanVars>>
    \/ \E m \in rpc : TaskScheduled(m) /\ UNCHANGED <<coordVars, rmiVars, connVars, accVars, provVars, sortVars, writerVars, cloneVars, scanVars>>
    \/ \E h \in DOMAIN runners : ThreadEnds(h) /\ UNCHANGED <<coordVars, rmiVars, connVars, accVars, provVars, sortVars, writerVars, cloneVars, scanVars>>
    \/ \E m \in rpc : GetTaskResult(m) /\ UNCHANGED <<coordVars, rmiVars, connVars, accVars, provVars, sortVars, writerVars, cloneVars, scanVars>>
    \/ \E m \in rpc : TaskCompletes(m) /\ UNCHANGED <<coordVars, rmiVars, connVars, accVars, provVars, sortVars, writerVars, cloneVars, scanVars>>
    \/ NextStage /\ UNCHANGED <<coordVars, rmiVars, connVars, accVars, provVars, sortVars, writerVars, cloneVars, scanVars>>
    \/ JobReturns /\ UNCHANGED <<coordVars, rmiVars, connVars, accVars, provVars, sortVars, writerVars, cloneVars, scanVars>>

SpecUnion == InitUnion /\ [][NextUnion]_vars

(***************************************************************************)
(* Specification of a job whose tasks are marked done or failed from       *)
(* outside while they execute, and which the program may cancel            *)
(***************************************************************************)
MarkTargets == {6, 16}

\* f raises on the first k workers
InitMark ==
    /\ \E tgt \in MarkTargets, k \in 0..1 : JobInit(tgt, {}, 2, 1..k)
    /\ clear_fail_on = {}
    /\ CoordInit
    /\ RmiInit
    /\ ConnInit
    /\ AccInit /\ ProvInit /\ SortInit /\ WriterInit /\ CloneInit /\ ScanInit

NextMark ==
    \/ \E w \in Workers : Submit(w) /\ UNCHANGED <<coordVars, rmiVars, connVars, accVars, provVars, sortVars, writerVars, cloneVars, scanVars>>
    \/ \E m \in rpc : RunTaskAsync(m) /\ UNCHANGED <<coordVars, rmiVars, connVars, accVars, provVars, sortVars, writerVars, cloneVars, scanVars>>
    \/ \E m \in rpc : TaskScheduled(m) /\ UNCHANGED <<coordVars, rmiVars, connVars, accVars, provVars, sortVars, writerVars, cloneVars, scanVars>>
    \/ \E h \in DOMAIN runners : ThreadEnds(h) /\ UNCHANGED <<coordVars, rmiVars, connVars, accVars, provVars, sortVars, writerVars, cloneVars, scanVars>>
    \/ \E m \in rpc : GetTaskResult(m) /\ UNCHANGED <<coordVars, rmiVars, connVars, accVars, provVars, sortVars, writerVars, cloneVars, scanVars>>
    \/ \E m \in rpc : TaskCompletes(m) /\ UNCHANGED <<coordVars, rmiVars, connVars, accVars, provVars, sortVars, writerVars, cloneVars, scanVars>>
    \/ \E m \in rpc : CancelTask(m) /\ UNCHANGED <<coordVars, rmiVars, connVars, accVars, provVars, sortVars, writerVars, cloneVars, scanVars>>
    \/ JobReturns /\ UNCHANGED <<coordVars, rmiVars, connVars, accVars, provVars, sortVars, writerVars, cloneVars, scanVars>>
    \/ JobCancel /\ UNCHANGED <<coordVars, rmiVars, connVars, accVars, provVars, sortVars, writerVars, cloneVars, scanVars>>
    \/ \E t \in DOMAIN tasks : MarkFailed(t) /\ UNCHANGED <<coordVars, rmiVars, connVars, accVars, provVars, sortVars, writerVars, cloneVars, scanVars>>
    \/ \E t \in DOMAIN tasks : MarkDone(t) /\ UNCHANGED <<coordVars, rmiVars, connVars, accVars, provVars, sortVars, writerVars, cloneVars, scanVars>>
    \/ \E h \in DOMAIN runners : TaskCancelledRaised(h) /\ UNCHANGED <<coordVars, rmiVars, connVars, accVars, provVars, sortVars, writerVars, cloneVars, scanVars>>
    \/ \E h \in DOMAIN runners : ThreadEndsLate(h) /\ UNCHANGED <<coordVars, rmiVars, connVars, accVars, provVars, sortVars, writerVars, cloneVars, scanVars>>

SpecMark == InitMark /\ [][NextMark]_vars

(***************************************************************************)
(* Properties of the execution of a job                                    *)
(***************************************************************************)
\* the shuffle writing datasets whose buckets materializing p fetches
RECURSIVE ReadsFrom(_)
ReadsFrom(p) ==
    IF Datasets[p.dset].kind = "ShuffleReading" THEN {Datasets[p.dset].src[1]}
    ELSE IF PartSrc(p) # NoPart THEN ReadsFrom(PartSrc(p))
    ELSE {}

RunnersOf(t) == {h \in DOMAIN runners : TaskOfHandle(h) = t}

\* every task of the stage that writes dataset d has completed
WriterStageCompleted(d) ==
    \A u \in TaskIds(stages) :
        (\E v \in TaskIds(stages) : v[1] = u[1] /\ PartOf(v).dset = d) =>
            /\ TaskSucceeded(tasks[u])
            /\ \E h \in RunnersOf(u) : runners[h].thread = "returned"

\* the elements the terminal action received, and those of the dataset
Result == Flatten([i \in DOMAIN yielded |-> Flatten(yielded[i])])
Expected == IF target = 7 THEN {0, 1, 2} ELSE IF target = 11 THEN {0, 1, 2, 3} ELSE {0, 1}
ResultCorrect ==
    /\ Len(Result) = Cardinality(Expected)
    /\ \A e \in Expected : Count(Result, e) = 1

\* C1: no task of a shuffle reading stage is started (so no bucket of the
\* writer dataset is fetched) before every task of the stage that writes the
\* dataset has completed
InvC1 ==
    \A t \in TaskIds(stages) :
        (hist.starts[t] # <<>> \/ RunnersOf(t) # {}) =>
            \A d \in ReadsFrom(PartOf(t)) : WriterStageCompleted(d)

WitnessC1 ==
    \E t \in TaskIds(stages) :
        /\ ReadsFrom(PartOf(t)) # {}
        /\ \E h \in RunnersOf(t) : runners[h].thread = "returned"

\* C2: with the attempt limit N a task is started at most N times, on at
\* most N distinct workers, every start appending the worker to executed_on
\* and incrementing attempts; a task of which an attempt succeeded hands
\* exactly one result to the caller, and the caller receives every element
\* of the dataset exactly once
InvC2 ==
    /\ \A t \in TaskIds(stages) :
          /\ Len(hist.starts[t]) <= attempts_conf
          /\ Cardinality(Range(hist.starts[t])) <= attempts_conf
          /\ tasks[t].attempts = Len(hist.starts[t])
          /\ tasks[t].executed_on = hist.starts[t]
          /\ Cardinality(RunnersOf(t)) <= attempts_conf
    /\ \A i \in DOMAIN yielded :
          /\ Len(yielded[i]) <= 1
          /\ TaskSucceeded(tasks[<<Len(stages), i>>]) => Len(yielded[i]) = 1
    /\ job_state = "returned" => ResultCorrect

\* every attempt task t was given ended with f raising
RaisedOnEveryAttempt(t) ==
    /\ RunnersOf(t) # {}
    /\ Cardinality(RunnersOf(t)) = Len(hist.starts[t])
    /\ \A h \in RunnersOf(t) : runners[h].thread = "raised"

\* ... and t was given all the attempts of the configuration, and the
\* driver has handled the outcome of each
Exhausted(t) ==
    /\ RaisedOnEveryAttempt(t)
    /\ Len(hist.starts[t]) = attempts_conf
    /\ \A m \in rpc : TaskOfHandle(m.h) # t

\* C4: if a task raises on every attempt it is given, the terminal action
\* raises instead of returning a result
InvC4 ==
    \A t \in TaskIds(stages) :
        /\ RaisedOnEveryAttempt(t) => job_state # "returned"
        /\ Exhausted(t) => job_state = "raised"

WitnessC4 ==
    /\ attempts_conf = 1
    /\ job_state = "raised"
    /\ \E t \in TaskIds(stages) : Exhausted(t)

\* C5: a failed task with attempts left is back in the pending list; no
\* task is started again on a worker it was started on before while there
\* is a worker it was not started on; so with 2 attempts and f raising on
\* one worker out of several the job does not fail and returns every
\* element once
InvC5 ==
    /\ \A t \in TaskIds(stages) :
          /\ (/\ job_state = "running"
              /\ TaskFailed(tasks[t])
              /\ tasks[t].attempts < attempts_conf) => t[2] \in Range(pending)
          /\ \A j \in 1..Len(hist.starts[t]) :
                hist.starts[t][j] \in Range(SubSeq(hist.starts[t], 1, j - 1)) =>
                    Workers \subseteq Range(SubSeq(hist.starts[t], 1, j - 1))
    /\ (attempts_conf = 2 /\ Cardinality(fail_on) = 1 /\ NWorkers > 1) =>
          /\ job_state # "raised"
          /\ job_state = "returned" => ResultCorrect

\* C3 as claimed: once a task failed with no attempts left, the stage
\* starts no task any more, a cancel_task was sent for every task whose
\* thread was running at that moment, and the only tasks that ended as
\* failed are tasks in which f raised
CexC3 ==
    /\ [](job_state = "raised" =>
            /\ \A h \in hist.running_at_fail : h \in hist.cancel_sent
            /\ \A t \in hist.failed_tasks :
                  \E h \in RunnersOf(t) : runners[h].thread = "raised")
    /\ [][job_state = "raised" => hist'.starts = hist.starts]_vars

\* the partitions of the cached datasets
CachedParts == UNION {Range(parts(d)) : d \in cached}

\* a terminal action called after a worker died that was a cache location
AfterLoss == attempts_conf >= 2 /\ hist.lost_cache /\ job_no > hist.killed_in

\* the terminal action called after the loss returned every element once
\* and the cached partitions are cached on live workers
SafeC6 ==
    (job_state = "returned" /\ AfterLoss) =>
        /\ ResultCorrect
        /\ \A p \in CachedParts :
              /\ cache_locs[p] \in alive
              /\ CacheHas(cache, cache_locs[p], p)

Executions(key) == DOMAIN work_log[key]

\* no clear of key was called and no execution of work for key raised
Undisturbed(key) ==
    /\ clears[key] = 0
    /\ \A i \in Executions(key) : work_log[key][i].outcome # "raised"

SafeC7 ==
    \A key \in Keys : clears[key] = 0 =>
        /\ Cardinality(Executions(key)) <= 1
        /\ \A t \in Threads :
            thread[t].key = key /\ thread[t].ret = "value" =>
                /\ thread[t].result \in Executions(key)
                /\ work_log[key][thread[t].result].outcome = "returned"

\* C7: as long as a key is not cleared, work is executed at most once for
\* it, every call of coordinate for the key which returns returns the
\* result of that one execution, whether it did the work, waited for it or
\* came later, and every call does return when the work returns.
TheoremC7 ==
    /\ []SafeC7
    /\ \A t \in Threads :
        (thread[t].pc # "idle" /\ Undisturbed(thread[t].key))
            ~> \/ thread[t].pc = "idle" /\ thread[t].ret = "value"
               \/ ~Undisturbed(thread[t].key)

\* every thread has returned the result of the one execution for a key,
\* one of them from a later call
WitnessC7 ==
    \E key \in Keys :
        /\ clears[key] = 0
        /\ Cardinality(Executions(key)) = 1
        /\ \A t \in Threads :
            /\ thread[t].pc = "idle"
            /\ thread[t].key = key
            /\ thread[t].ret = "value"
        /\ calls > NThreads
        /\ events_set # {}

\* C31: when every execution of work returns or raises, every call of
\* coordinate returns or raises in the end, also the calls which wait for
\* an execution that raises and the calls which come after it
CexC31 ==
    \A t \in Threads : thread[t].pc # "idle" ~> thread[t].pc = "idle"

\* the number of clears of the key before the execution of work whose
\* result thread t returns in this step
EpochReturned(t) == work_log[thread'[t].key][thread'[t].result].epoch

\* C32: a call of coordinate never returns the result of an execution of
\* work which started before a clear of the key that came before the call:
\* not from the stored result when it is called, nor after waiting for an
\* execution that started after the clear
CexC32 ==
    [][\A t \in Threads :
        /\ (thread[t].pc = "idle" /\ calls' # calls /\ thread'[t].pc = "idle"
                /\ thread'[t].ret = "value")
            => EpochReturned(t) = clears[thread'[t].key]
        /\ (thread[t].pc = "read" /\ thread'[t].ret = "value")
            => EpochReturned(t) >= work_log[thread[t].key][thread[t].done].epoch]_vars

(***************************************************************************)
(* Properties of remote method invocation                                  *)
(***************************************************************************)
\* no future that is done is in the handlers: set_exception in disconnect
\* does not raise InvalidStateError
HandlersPending == \A i \in handlers : futures[i].state = "pending"

\* the requests that were in the handlers when disconnect failed them have
\* a future with NotConnected, and their callers get that exception
SafeC8 ==
    \A i \in rmi_hist.outstanding :
        /\ futures[i].state = "exception"
        /\ invocation[i].pc = "done" => invocation[i].outcome = "NotConnected"

\* C8: disconnect fails the future of every request in the handlers with
\* NotConnected and leaves the handlers empty; the callers of these
\* requests raise NotConnected, and no caller keeps waiting for a response
\* of a peer that is disconnected.
TheoremC8 ==
    /\ []SafeC8
    /\ [][rmi_hist'.disconnects # rmi_hist.disconnects =>
            /\ handlers' = {}
            /\ rmi_hist'.outstanding = handlers
            /\ \A i \in handlers : futures'[i].state = "exception"]_vars
    /\ \A i \in ReqIds :
        (~connected /\ invocation[i].pc = "wait") ~> invocation[i].pc = "done"

\* a request was sent, the peer disconnected before the response came and
\* the caller has raised NotConnected
WitnessC8 ==
    \E i \in rmi_hist.outstanding :
        /\ i \in rmi_hist.requests_sent
        /\ invocation[i].pc = "done"
        /\ invocation[i].outcome = "NotConnected"
        /\ handlers = {}

\* C9: when the invoked method raises E the caller gets no value but an
\* InvocationException with cause E: on a connection that stays connected
\* the caller is not left without a response to wait for once the method
\* has raised.
CexC9 ==
    \A i \in ReqIds :
        /\ invocation[i].outcome = "value" => invocation[i].method = "returns"
        /\ invocation[i].outcome = "InvocationException" =>
                invocation[i].cause = Raised(invocation[i].method)
        /\ ~ /\ invocation[i].method \in {"raises", "cancelled"}
             /\ remote[i] = "handled"
             /\ connected
             /\ invocation[i].pc = "wait"
             /\ futures[i].state = "pending"
             /\ \A m \in net : m.req_id # i

\* a step in which the wait of invocation i times out
TimedOut(i) ==
    /\ invocation[i].outcome # "TimeoutError"
    /\ invocation'[i].outcome = "TimeoutError"

\* a step in which the response to invocation i, which timed out, is handled
LateResponse(i) ==
    /\ invocation[i].outcome = "TimeoutError"
    /\ \E m \in net : m.type = "Response" /\ m.req_id = i /\ m \notin net'

\* the other requests keep their handlers, futures and callers
OthersUnaffected(i) ==
    \A j \in ReqIds \ {i} :
        /\ invocation'[j] = invocation[j]
        /\ futures'[j] = futures[j]
        /\ j \in handlers' <=> j \in handlers

\* C10: the step in which an invocation times out sends nothing and
\* changes nothing at the peer or for other requests; the method invoked
\* keeps running until it ends; and the step which handles the late
\* response changes no future, no handler and no invocation.
TheoremC10 ==
    /\ [][\A i \in ReqIds :
            /\ TimedOut(i) =>
                /\ net' = net
                /\ remote' = remote
                /\ rmi_hist' = rmi_hist
                /\ OthersUnaffected(i)
            /\ remote[i] = "running" => remote'[i] \in {"running", "handled"}
            /\ LateResponse(i) /\ connected' =>
                /\ handlers' = handlers
                /\ futures' = futures
                /\ invocation' = invocation]_vars
    /\ \A i \in ReqIds :
        (invocation[i].outcome = "TimeoutError" /\ remote[i] = "running")
            ~> remote[i] = "handled"

\* an invocation timed out while the method ran, the method returned, its
\* response was discarded and another request is still pending
WitnessC10 ==
    \E i \in ReqIds, j \in ReqIds :
        /\ i # j
        /\ invocation[i].outcome = "TimeoutError"
        /\ remote[i] = "handled"
        /\ i \in rmi_hist.discarded
        /\ invocation[j].pc = "wait"
        /\ j \in handlers
        /\ futures[j].state = "pending"

\* a step in which Invocation._request draws a request id
Issued == request_ids' # request_ids

\* a step in which the dispatcher handles Response m
Handled(m) == m.type = "Response" /\ m \in net /\ m \notin net' /\ connected'

\* C27: a request id which is issued was not issued before, so that no
\* two requests to the peer have the same req_id; and the step which
\* handles a Response resolves the pending future registered under its
\* req_id with that response and removes its handler, changes no other
\* future or handler, and changes no future or handler at all when no
\* pending future is registered under the req_id.
TheoremC27 ==
    [][/\ Issued =>
            /\ request_ids' = request_ids + 1
            /\ invocation[request_ids].pc = "none"
            /\ futures[request_ids].state = "none"
            /\ request_ids \notin handlers
            /\ handlers' = handlers \cup {request_ids}
            /\ \A m \in net : m.req_id # request_ids
       /\ \A m \in net : Handled(m) =>
            IF m.req_id \in handlers /\ futures[m.req_id].state = "pending"
            THEN /\ handlers' = handlers \ {m.req_id}
                 /\ futures' = [futures EXCEPT ![m.req_id] =
                                    [state |-> "result", response |-> m]]
            ELSE /\ handlers' = handlers
                 /\ futures' = futures]_vars

\* the future of one request was resolved with the response to it, and
\* the response to another request, which had no pending future any more,
\* was handled
WitnessC27 ==
    \E i \in ReqIds, j \in ReqIds :
        /\ i # j
        /\ futures[i].state = "result"
        /\ futures[i].response.req_id = i
        /\ j \in rmi_hist.discarded
        /\ futures[j].state = "cancelled"

\* C26: a request handled on a connection that stays connected is
\* answered with exactly one Response with its req_id, also when the
\* service has no such method or the method raises: at most one response
\* is ever sent for a request, and once the handling of the request has
\* ended one was sent.
CexC26 ==
    \A i \in ReqIds :
        /\ rmi_hist.responses[i] <= 1
        /\ (remote[i] = "handled" /\ connected) => rmi_hist.responses[i] = 1

\* C33: once an invocation has finished, with a value or an exception,
\* and no disconnect is under way, peer.handlers has no entry for its
\* req_id
CexC33 ==
    \A i \in ReqIds :
        (invocation[i].pc = "done" /\ ~disconnecting) => i \notin handlers

(***************************************************************************)
(* Properties of cancellation                                              *)
(***************************************************************************)
\* C11: cancel is idempotent: a second cancel of a task, right after a
\* first one, sends no cancel_task and leaves the task as the first call
\* left it; and on every worker a second cancel_task for a task id
\* returns False and changes nothing.
CexC11 ==
    /\ \A t \in DOMAIN tasks :
        /\ RmiCancelSends(RmiCancel(tasks[t])) = {}
        /\ RmiCancel(RmiCancel(tasks[t])) = RmiCancel(tasks[t])
    /\ \A w \in Workers, h \in DOMAIN runners :
        LET once == WorkerCancelTask(tasks_running, runners, w, h)
            twice == WorkerCancelTask(once.tasks_running, once.runners, w, h)
        IN  /\ ~twice.returned
            /\ twice.tasks_running = once.tasks_running
            /\ twice.runners = once.runners

\* C12: Job.cancel leaves every task that had completed as it was: not
\* marked cancelled, done and succeeded as before, its result kept.
CexC12 ==
    [][hist'.cancels # hist.cancels =>
        \A t \in DOMAIN tasks : TaskDone(tasks[t]) => tasks'[t] = tasks[t]]_vars

\* C13: for every task that was executed and whose result had not arrived
\* when cancel was called, a cancel_task for its handle is sent: at the
\* latest when all the messages of the exchange have been handled.
CexC13 ==
    (hist.cancels > 0 /\ rpc = {}) =>
        \A h \in hist.pending_at_cancel : h \in hist.cancel_sent

\* a step in which cancel_task, handling request m, returns True
CancelApplied(m) ==
    /\ m.type = "cancel_task"
    /\ m \in rpc
    /\ m \notin rpc'
    /\ WorkerCancelTask(tasks_running, runners, m.w, m.h).returned

\* C28: when cancel_task returns True the thread of the task has observed
\* TaskCancelled: the exception was raised in the thread, not only set to
\* be raised in it
CexC28 ==
    [][\A m \in rpc : CancelApplied(m) => runners'[m.h].thread = "raised"]_vars

\* a step in which RmiTask._task_completed handles the response m to
\* get_task_result
Completed(m) == m.type = "completed" /\ m \in rpc /\ m \notin rpc'

\* C34: the future of a task is resolved at most once: _task_completed
\* never calls set_result or set_exception on a future that is done,
\* however the completion of an attempt, mark_done, mark_failed, the next
\* execution and cancel follow each other
CexC34 ==
    [][\A m \in rpc : Completed(m) => ~TaskDone(tasks[TaskOfHandle(m.h)])]_vars

\* the worker execute_async was sent to for the attempt with handle h
IssuedBy(h) == hist.starts[TaskOfHandle(h)][h[3]]

\* C35: a get_task_result or cancel_task for a handle is only sent to the
\* worker whose execute_async returned the handle, and a completion which
\* resolves the future of a task is that of the latest attempt of the
\* task, also when the task was marked failed and executed again before
\* the replies of the first worker arrived
CexC35 ==
    [][/\ \A m \in rpc' \ rpc :
            m.type \in {"get_task_result", "cancel_task"} => m.w = IssuedBy(m.h)
       /\ \A m \in rpc :
            (Completed(m) /\ tasks'[TaskOfHandle(m.h)].future # tasks[TaskOfHandle(m.h)].future)
                => m.h[3] = tasks[TaskOfHandle(m.h)].attempts]_vars

\* a step in which the thread of runner h returns from the task and
\* TaskRunner.run calls set_result
SetsResult(h) ==
    /\ runners[h].thread \in {"running", "cancelled"}
    /\ runners'[h].thread = "returned"

\* C36: the result future of a runner is not given a result or an
\* exception once cancel_task has cancelled it: TaskRunner.run does not
\* call set_result or set_exception on a cancelled future, whether the
\* thread returns or raises, before or after the cancel
CexC36 ==
    [][\A h \in DOMAIN runners : SetsResult(h) => runners[h].result.state # "cancelled"]_vars

(***************************************************************************)
(* Properties of a connection                                              *)
(***************************************************************************)
\* the messages recv returned, in the order in which it returned them
Delivered == SelectSeq(conn_hist.received, LAMBDA r : r.error = "")

\* every message recv returns is a message which was sent, whole
DeliveredAsSent ==
    \A i \in 1..Len(Delivered) :
        /\ Delivered[i].no \in 1..conn_hist.calls
        /\ Delivered[i].msg = conn_hist.sent[Delivered[i].no]

\* the fields of a frame are next to each other on the wire
FramesWhole ==
    \A i, j, k \in 1..Len(wire) : i < j /\ j < k /\ wire[i].no = wire[k].no => wire[j].no = wire[i].no

\* the messages of sends of which the first returned before the second
\* was called are returned in that order
DeliveredInOrderOfReturn ==
    \A i, j \in 1..Len(Delivered) :
        Delivered[j].no \in conn_hist.returned_at_call[Delivered[i].no] => j < i

\* C14: the messages recv returns are those which were sent, each whole,
\* in the order of the calls of send: a message of a later call is never
\* returned before the message of an earlier call
CexC14 ==
    /\ DeliveredAsSent
    /\ FramesWhole
    /\ \A i, j \in 1..Len(Delivered) : i < j => Delivered[i].no < Delivered[j].no

\* C15: a send called while the reader is at EOF or the writer is closing
\* raises NotConnected and writes nothing, a recv called then raises
\* NotConnected; a recv which is cut off raises NotConnected when no byte
\* of the field it reads had arrived, and another error when some had
TheoremC15 ==
    /\ \A i \in 1..conn_hist.calls :
        conn_hist.at_call[i].eof \/ conn_hist.at_call[i].closing
            => conn_hist.send_outcome[i] = "NotConnected" /\ i \notin conn_hist.wrote
    /\ \A i \in 1..Len(conn_hist.received) :
        LET r == conn_hist.received[i]
        IN  /\ r.disc => r.error = "NotConnected" /\ r.cut = "call"
            /\ r.cut = "none" => r.error = "NotConnected"
            /\ r.cut = "some" => r.error \notin {"NotConnected", ""}

\* a send was refused on a connection which is not connected, and a recv
\* was cut off after a part of a field
WitnessC15 ==
    /\ \E i \in 1..conn_hist.calls :
        /\ conn_hist.at_call[i].eof \/ conn_hist.at_call[i].closing
        /\ conn_hist.send_outcome[i] = "NotConnected"
    /\ \E i \in 1..Len(conn_hist.received) : conn_hist.received[i].cut = "some"

(***************************************************************************)
(* Properties of a shuffle                                                 *)
(***************************************************************************)
\* the elements of the source partitions which belong in destination
\* partition idx of the shuffle of writer dataset d
Destined(d, idx) ==
    {e \in UNION {Range(Elements(q)) : q \in Range(parts(Datasets[Datasets[d].src[1]].src[1]))} :
        partitioner(e) % Datasets[d].pcount = idx}

\* C16: a task of the shuffle reading stage yields exactly the elements of
\* the source partitions which the partitioner assigns to its partition,
\* every one of them once, also after a writer task was retried
CexC16 ==
    \A t \in TaskIds(stages) :
        (Datasets[PartOf(t).dset].kind = "ShuffleReading" /\ t[1] = Len(stages)
         /\ yielded[t[2]] # <<>>) =>
            LET d == Datasets[PartOf(t).dset].src[1]
                data == yielded[t[2]][1]
            IN  /\ \A e \in Destined(d, PartOf(t).idx) : Count(data, e) = 1
                /\ Len(data) = Cardinality(Destined(d, PartOf(t).idx))

(***************************************************************************)
(* Properties of the cleanup of a job                                      *)
(***************************************************************************)
\* the datasets in the lineage of dataset d, all sources of a union included
RECURSIVE Lineage(_)
Lineage(d) ==
    {d} \cup UNION {Lineage(Datasets[d].src[k]) : k \in 1..Len(Datasets[d].src)}

ShuffleWriters(d) == {x \in Lineage(d) : Datasets[x].kind = "ShuffleWriting"}

\* C17: while the job runs no clear_bucket is called; once it has stopped,
\* returned or raised, clear_bucket(D) was called on every worker for
\* every shuffle writing dataset D of the lineage, the calls which failed
\* were logged; and in the step in which the job stops the buckets of D
\* are cleared on every worker on which the call did not fail
TheoremC17 ==
    [][/\ job_state' = "running" => hist'.clear_issued = {}
       /\ (job_state = "running" /\ job_state' \in {"returned", "raised"}) =>
            /\ hist'.clear_issued = ShuffleWriters(target) \X alive
            /\ hist'.clear_logged = ShuffleWriters(target) \X (alive \cap clear_fail_on)
            /\ \A d \in ShuffleWriters(target), w \in alive \ clear_fail_on :
                    buckets'[w][d] = <<>>
       /\ (job_state \in {"returned", "raised"} /\ job_state' = job_state) =>
            hist'.clear_issued = hist.clear_issued]_vars

\* an action on the union returned although a clear_bucket call failed,
\* and the bucket of another worker was cleared
WitnessC17 ==
    /\ target = 7
    /\ job_state = "returned"
    /\ hist.clear_logged # {}
    /\ hist.clear_issued \ hist.clear_logged # {}

(***************************************************************************)
(* Properties of the accumulators                                          *)
(***************************************************************************)
\* the updates issued for accumulator id, and those of them which were applied
UpdatesOf(id) == {n \in 1..acc_hist.issued : acc_hist.updates[n].id = id}
AppliedOf(id) == {n \in UpdatesOf(id) : acc_hist.applied[n] > 0}

\* C18: the updates of an accumulator are applied one at a time: no two
\* threads are between the load and the store of its value, and when its
\* updates are all '+' its value is the initial value plus the operands of
\* the updates applied so far, so plus all n operands once n updates have
\* been handled
TheoremC18 ==
    /\ \A m, n \in UpdateNos :
        (/\ handler[m].pc = "store" /\ handler[n].pc = "store"
         /\ handler[m].update.id = handler[n].update.id) => m = n
    /\ (\A n \in UpdatesOf("number") : acc_hist.updates[n].op = "+") =>
        accumulators["number"].value =
            Initial("number")
            + SeqSum([n \in 1..acc_hist.issued |->
                        IF n \in AppliedOf("number") THEN acc_hist.updates[n].value ELSE 0])

\* two '+' updates of the number were handled at the same time and both
\* have been applied
WitnessC18 ==
    /\ acc_hist.contended
    /\ Cardinality(AppliedOf("number")) = 2
    /\ \A n \in UpdatesOf("number") : acc_hist.updates[n].op = "+"

\* C21: an update which arrives for an accumulator id that has no lock
\* registered is logged and dropped: the values of all accumulators stay
\* as they are, nothing is counted as applied, and no exception leaves
\* _update_accumulator
TheoremC21 ==
    [][\A u \in acc_net :
        (/\ ~locks[u.id].registered
         /\ handler[u.no].pc = "none"
         /\ handler'[u.no].pc # "none") =>
            /\ accumulators' = accumulators
            /\ handler'[u.no].pc = "done"
            /\ u.no \in acc_hist'.logged
            /\ acc_hist'.raised = acc_hist.raised
            /\ acc_hist'.applied = acc_hist.applied]_vars

\* an update for a deregistered accumulator was handled while the other
\* accumulator, which an earlier update had changed, is still registered
WitnessC21 ==
    /\ \E n \in acc_hist.unknown : handler[n].pc = "done"
    /\ \E id \in AccIds : accumulators[id].registered /\ accumulators[id].value # Initial(id)

\* C19: once no request is on its way and no thread is handling one,
\* every update which was issued for an accumulator that is still
\* registered has been applied at least once
CexC19 ==
    (/\ acc_net = {}
     /\ \A n \in UpdateNos : handler[n].pc \in {"none", "done"}) =>
        \A n \in 1..acc_hist.issued :
            acc_hist.updates[n].id \notin acc_hist.deregistered => acc_hist.applied[n] >= 1

\* the orders in which the updates of the set S can arrive
Orders(S) ==
    {f \in [1..Cardinality(S) -> S] : \A i, j \in 1..Cardinality(S) : f[i] = f[j] => i = j}

\* the value of an accumulator after the updates of order f were applied
\* to value a one after the other
RECURSIVE AppliedInOrder(_, _)
AppliedInOrder(a, f) ==
    IF f = <<>> THEN a
    ELSE AppliedInOrder(Apply(acc_hist.updates[Head(f)].op, a, acc_hist.updates[Head(f)].value),
                        Tail(f))

\* the operators of the updates of id commute with each other and are
\* associative: additions and subtractions, or multiplications, or
\* additions to a set, or removals from it
Commutative(id) ==
    LET ops == {acc_hist.updates[n].op : n \in UpdatesOf(id)}
    IN  ops \subseteq {"+", "-"} \/ ops \subseteq {"*"} \/ ops \subseteq {"add"}
        \/ ops \subseteq {"discard"}

\* C20: when the updates of an accumulator commute and all of them have
\* been applied, its value is the value which results from the updates in
\* whichever order they are applied
TheoremC20 ==
    \A id \in AccIds :
        (Commutative(id) /\ AppliedOf(id) = UpdatesOf(id)) =>
            \A f \in Orders(UpdatesOf(id)) :
                accumulators[id].value = AppliedInOrder(Initial(id), f)

\* two updates of an accumulator which commute, with different operands,
\* arrived in the order opposite to the one in which they were issued and
\* were applied
WitnessC20 ==
    \E id \in AccIds :
        /\ Commutative(id)
        /\ UpdatesOf(id) = {1, 2} /\ AppliedOf(id) = {1, 2}
        /\ acc_hist.updates[1].value # acc_hist.updates[2].value
        /\ acc_hist.arrived = <<2, 1>>

\* a step in which _deregister_accumulator(id) is called
Deregisters(id) == accumulators[id].registered /\ ~accumulators'[id].registered

\* C37: after every registration, deregistration and collection the
\* service has a lock for an id exactly when it has an accumulator for the
\* id, and no deregistration fails with the KeyError of a lock which the
\* collection of the accumulator has removed
CexC37 ==
    [][\A id \in AccIds :
        /\ locks'[id].registered <=> accumulators'[id].registered
        /\ Deregisters(id) => locks[id].registered]_vars

(***************************************************************************)
(* Properties of concurrent shuffle writers                                *)
(***************************************************************************)
\* the elements in the list of buckets v
ElementsIn(v) == UNION {Range(vectors[v][j]) : j \in 1..Len(vectors[v])}

\* C38: the writer partitions of one shuffle which materialize at the same
\* time on one worker all write into the list of buckets which the worker
\* holds for the dataset, and when all are done every element of every one of
\* them is in that list
CexC38 ==
    /\ \A t \in Writers :
            writer[t].pc \in {"add", "done"} => writer[t].buckets = worker_buckets
    /\ (\A t \in Writers : writer[t].pc = "done")
            => \A t \in Writers : Range(WriterData(t)) \subseteq ElementsIn(worker_buckets)

(***************************************************************************)
(* Properties of the clones of a dataset                                   *)
(***************************************************************************)
\* C39: prefer_workers and allow_workers return a new dataset with an id no
\* other dataset has and leave the datasets there are as they were, and a
\* partition of a dataset has a cache location only if a cache location was
\* recorded for that partition of that dataset, not for one of a clone or of
\* the dataset it was cloned from
CexC39 ==
    [][/\ Len(dset_objs') > Len(dset_objs) =>
            /\ SubSeq(dset_objs', 1, Len(dset_objs)) = dset_objs
            /\ \A d \in DOMAIN dset_objs : dset_objs[d].id # dset_objs'[Len(dset_objs')].id
            /\ \A d \in DOMAIN dset_objs, idx \in CloneParts :
                    PartCacheLoc(d, idx)' = PartCacheLoc(d, idx)
       /\ \A d \in DOMAIN dset_objs', idx \in CloneParts :
            PartCacheLoc(d, idx)' # None => <<d, idx>> \in recorded_locs']_vars

(***************************************************************************)
(* Properties of the partitions of a scan                                  *)
(***************************************************************************)
\* the token ranges of a sequence of partitions, one after the other
RECURSIVE TokenRangesOf(_)
TokenRangesOf(partitions) ==
    IF partitions = <<>> THEN <<>>
    ELSE Head(partitions).token_ranges \o TokenRangesOf(Tail(partitions))

\* C40: the token ranges of the partitions which parts() returns are the
\* token ranges of the partitions it started from, each of them once
CexC40 ==
    scan_returned =>
        /\ Range(TokenRangesOf(scan_parts)) = Range(TokenRangesOf(scan_input))
        /\ Len(TokenRangesOf(scan_parts)) = Len(TokenRangesOf(scan_input))

(***************************************************************************)
(* Properties of the cache provider                                        *)
(***************************************************************************)
\* C22: a read of (k, o) returns the data last written under (k, o) as long
\* as neither clear(k) nor clear(k, o) was called since; it fails with
\* KeyError after such a clear and for a key never written; so a clear of
\* (k, o) leaves the entries under other keys readable
TheoremC22 ==
    \A r \in cache_hist.reads :
        IF r.expected # None
        THEN r.result = [error |-> "", data |-> r.expected]
        ELSE r.result = [error |-> "KeyError", data |-> None]

\* an entry written on disk was read after clear(k, o) of another object
\* key of its cache key
WitnessC22 ==
    \E r \in cache_hist.reads :
        /\ r.result.error = ""
        /\ r.after_clear
        /\ caches[r.key[1]].objs[r.key[2]].loc = "disk"
        /\ \E c \in cache_hist.cleared : c[1] = r.key[1] /\ c[2] # r.key[2]

(***************************************************************************)
(* Properties of the cache locations                                       *)
(***************************************************************************)
\* the partitions with a cache location
Located == {p \in AllParts : cache_locs[p] # None}

SortPartitionOf(e) ==
    RangePartitioner(sorting.boundaries, sorting.reverse, Key(sorting.key, e))
        % sorting.pcount

\* C24: the collected output of sort is in the order of the keys, in
\* descending order with reverse, for every pcount: elements with smaller
\* keys go to partitions with smaller (with reverse: larger) or the same
\* index, and the output holds what the dataset held
TheoremC24 ==
    /\ sorting.pc = "collected" =>
        /\ \A i \in 1..(Len(sorting.out) - 1) :
                ~Before(sorting.reverse, Key(sorting.key, sorting.out[i + 1]),
                                         Key(sorting.key, sorting.out[i]))
        /\ \A e \in SortValues :
                Count(sorting.out, e) = Count(Flatten(sorting.data), e)
    /\ sorting.pc = "shuffle" =>
        \A a, b \in SortValues :
            Key(sorting.key, a) < Key(sorting.key, b) =>
                IF sorting.reverse THEN SortPartitionOf(a) >= SortPartitionOf(b)
                                   ELSE SortPartitionOf(a) <= SortPartitionOf(b)

\* a dataset of four elements with three keys was sorted in descending
\* order into three partitions, of which two or more hold elements
WitnessC24 ==
    /\ sorting.pc = "collected"
    /\ sorting.reverse
    /\ sorting.pcount = 3
    /\ Len(sorting.out) = 4
    /\ Cardinality({Key(sorting.key, e) : e \in Range(sorting.out)}) = 3
    /\ Cardinality({j \in 1..3 : sorting.buckets[j] # <<>>}) >= 2

(***************************************************************************)
(* Properties of the stages and tasks of a job, and of a union             *)
(***************************************************************************)
\* the datasets of which a task for partition p materializes a partition
RECURSIVE MaterializedBy(_)
MaterializedBy(p) ==
    IF p = NoPart THEN {} ELSE {p.dset} \cup MaterializedBy(PartSrc(p))

\* the datasets materialized in the stage at position s of the job
MaterializedIn(s) == UNION {MaterializedBy(stages[s][i].part) : i \in 1..Len(stages[s])}

\* collect() of an iterable dataset: the elements of its partitions in order
Collect(d) == Flatten([i \in 1..Len(parts(d)) |-> Elements(parts(d)[i])])

\* C25: the ordered collect of the union of two iterable datasets returns
\* the elements of the first followed by the elements of the second
CexC25 ==
    (job_state = "returned" /\ target = 12) =>
        Result = Collect(Datasets[12].src[1]) \o Collect(Datasets[12].src[2])

\* C29: the id of a stage is its position in job.stages, counted from 0,
\* and a stage in which a shuffle writing dataset is materialized has a
\* smaller id than a stage in which its reader is materialized, also
\* where the pair is in a branch of a union
TheoremC29 ==
    /\ \A s \in 1..Len(stages) : StageIds(stages)[s] = s - 1
    /\ \A r \in DatasetIds : Datasets[r].kind = "ShuffleReading" =>
        \A s1, s2 \in 1..Len(stages) :
            (Datasets[r].src[1] \in MaterializedIn(s1) /\ r \in MaterializedIn(s2)) =>
                StageIds(stages)[s1] < StageIds(stages)[s2]

\* the job of a union with a shuffle inside a branch that is itself a
\* union: the writer is materialized in stage 0 and its reader in stage 1
WitnessC29 ==
    /\ target = 13
    /\ Len(stages) = 2
    /\ 3 \in MaterializedIn(1)
    /\ 4 \in MaterializedIn(2)
    /\ StageIds(stages) = <<0, 1>>

\* C30: a stage has one task per partition of its dataset, and no two of
\* its tasks have the same id
CexC30 ==
    \A s \in 1..Len(stages) :
        /\ \E d \in DatasetIds :
                /\ Len(stages[s]) = Len(parts(d))
                /\ {stages[s][i].part : i \in 1..Len(stages[s])} = Range(parts(d))
        /\ \A i, j \in 1..Len(stages[s]) : stages[s][i].id = stages[s][j].id => i = j

====
